---- MODULE Spec2Model ----
(***************************************************************************)
(* A model of the IPO reminder's date engine (src/scraper.py): the          *)
(* Bikram-Sambat month table, the BS -> AD converter BSToADConverter and    *)
(* its date-phrase parser, and of the scraper MerolaganiScraper that reads  *)
(* company names and date ranges out of announcement texts (src/scraper.py  *)
(* and src/scraper_standalone.py).  Python strings are TLA+ strings; operators *)
(* that look inside a string work on its sequence of one-character          *)
(* strings (Chars).  Optional values are sequences: None is <<>> and a      *)
(* present value v is <<v>>.                                                *)
(***************************************************************************)
EXTENDS Integers, Sequences, FiniteSets, TLC

VARIABLES
    pc,         \* position of the modelled call
    monthTable, \* the class attribute BSToADConverter.BS_MONTH_DAYS
    phrase,     \* bs_date_str, the argument of parse_bs_date / convert_bs_date_string
    shape,      \* how the input was written: what it spells, or NoShape
    parsed,     \* what parse_bs_date returned (Optional record)
    bs,         \* the arguments (bs_year, bs_month, bs_day) of bs_to_ad
    result,     \* what bs_to_ad / convert_bs_date_string returned (Optional string)
    raised,     \* TRUE when an exception left bs_to_ad
    path,       \* the branch bs_to_ad took: "none", "exact" or "approx"
    n,          \* calendar walk: BS days walked from the anchor
    ad,         \* calendar walk: the Gregorian day reached, <<y, m, d>>
    file,       \* the file whose MerolaganiScraper runs: "scraper" or "scraper_standalone"
    announcement, \* the announcement text handed to the extraction methods
    company,    \* what _extract_company_name returned (Optional string)
    date_range, \* what _extract_date_range returned (Optional record)
    pattern,    \* the range pattern whose match was returned, 0 for none
    outcome,    \* how the request and the parse of the page end
    page,       \* the parsed page: announcement list found or not, its media divs
    ipos,       \* what _parse_media_list returned
    returned,   \* what fetch_upcoming_ipos returned
    stdout,     \* the lines printed or logged, in order
    table_ipos, \* the rows of the table ipos, in rowid order
    ipos_before, \* the rows the table ipos held before the first request
    requests,   \* the POST /ipos/update requests: position, body, response
    got,        \* what GET /ipos/upcoming returned (Optional list)
    table_fcm_tokens, \* the rows of the table fcm_tokens, in id order
    last_call,  \* for each token, the db function last called with it
    token_ids,  \* for each token, the ids save_fcm_token has returned for it
    today,      \* datetime.now().date() of the scheduler's run, <<y, m, d>>
    initialized, \* NotificationService.initialized
    send_fails, \* the tokens for which messaging.send raises
    attempts,   \* the calls of the two send functions in a run, in order
    api_url,    \* os.environ.get('API_URL') (Optional string)
    api,        \* how requests.post and raise_for_status end
    posted,     \* the records the API was sent (Optional list)
    backup,     \* the records written to scraped_ipos.json (Optional list)
    exit_value  \* what main returned (Optional boolean)

vars == <<pc, monthTable, phrase, shape, parsed, bs, result, raised, path, n, ad,
          file, announcement, company, date_range, pattern,
          outcome, page, ipos, returned, stdout,
          table_ipos, ipos_before, requests, got,
          table_fcm_tokens, last_call, token_ids,
          today, initialized, send_fails, attempts,
          api_url, api, posted, backup, exit_value>>

store_vars == <<table_ipos, ipos_before, requests, got>>

token_vars == <<table_fcm_tokens, last_call, token_ids>>

run_vars == <<today, initialized, send_fails, attempts>>

main_vars == <<api_url, api, posted, backup, exit_value>>

backend_vars == <<store_vars, token_vars, run_vars, main_vars>>

scraper_vars == <<file, announcement, company, date_range, pattern,
                  outcome, page, ipos, returned, stdout>>

None == <<>>
Some(v) == <<v>>

(***************************************************************************)
(* Python values a call can end with: a returned value or an exception.     *)
(***************************************************************************)
Return(v) == [kind |-> "return", value |-> v]
Raise == [kind |-> "raise"]

\* ------------------------------------------------------------------ tables

BS_MONTHS ==
    [baisakh |-> 1, baishakh |-> 1,
     jestha |-> 2, jeth |-> 2,
     ashadh |-> 3, asar |-> 3, ashad |-> 3,
     shrawan |-> 4, shravan |-> 4, sawan |-> 4,
     bhadra |-> 5, bhadau |-> 5,
     ashwin |-> 6, ashoj |-> 6,
     kartik |-> 7,
     mangsir |-> 8, mangshir |-> 8,
     poush |-> 9, paush |-> 9, push |-> 9,
     magh |-> 10, maghe |-> 10,
     falgun |-> 11, phalgun |-> 11,
     chaitra |-> 12, chait |-> 12]

\* the table with one month length mistyped (2082, second month)
BS_MONTH_DAYS_mistyped ==
    (2080 :> <<31, 31, 31, 32, 31, 31, 30, 29, 30, 29, 30, 30>>) @@
    (2081 :> <<31, 31, 32, 31, 31, 31, 30, 29, 30, 29, 30, 30>>) @@
    (2082 :> <<31, 31, 31, 32, 31, 30, 30, 30, 29, 29, 30, 30>>) @@
    (2083 :> <<31, 31, 31, 32, 31, 31, 30, 29, 30, 29, 30, 30>>) @@
    (2084 :> <<31, 31, 32, 31, 31, 31, 30, 29, 30, 29, 30, 30>>) @@
    (2085 :> <<31, 32, 31, 32, 31, 30, 30, 30, 29, 29, 30, 30>>) @@
    (2086 :> <<31, 31, 31, 32, 31, 31, 30, 29, 30, 29, 30, 30>>)

BS_MONTH_DAYS ==
    (2080 :> <<31, 31, 31, 32, 31, 31, 30, 29, 30, 29, 30, 30>>) @@
    (2081 :> <<31, 31, 32, 31, 31, 31, 30, 29, 30, 29, 30, 30>>) @@
    (2082 :> <<31, 32, 31, 32, 31, 30, 30, 30, 29, 29, 30, 30>>) @@
    (2083 :> <<31, 31, 31, 32, 31, 31, 30, 29, 30, 29, 30, 30>>) @@
    (2084 :> <<31, 31, 32, 31, 31, 31, 30, 29, 30, 29, 30, 30>>) @@
    (2085 :> <<31, 32, 31, 32, 31, 30, 30, 30, 29, 29, 30, 30>>) @@
    (2086 :> <<31, 31, 31, 32, 31, 31, 30, 29, 30, 29, 30, 30>>)

\* the anchor put one year later
REFERENCE_BS_2081 == [year |-> 2081, month |-> 1, day |-> 1]

REFERENCE_BS == [year |-> 2080, month |-> 1, day |-> 1]
REFERENCE_AD == <<2023, 4, 14>>

\* ---------------------------------------------------------------- strings

CharAt(s, i) == SubSeq(s, i, i)

Digits == "0123456789"
LowerLetters == "abcdefghijklmnopqrstuvwxyz"
UpperLetters == "ABCDEFGHIJKLMNOPQRSTUVWXYZ"

DigitChar(k) == SubSeq(Digits, k + 1, k + 1)

LowerSet == {CharAt(LowerLetters, i) : i \in 1..Len(LowerLetters)}
UpperSet == {CharAt(UpperLetters, i) : i \in 1..Len(UpperLetters)}

\* the character classes \d, \s and \w of the patterns, and [,\s]
SpaceSet == {" ", "\t", "\n"}
WordSet == LowerSet \cup UpperSet \cup {DigitChar(k) : k \in 0..9} \cup {"_"}
SepSet == {","} \cup SpaceSet

lower_char(c) ==
    IF c \in UpperSet
    THEN CharAt(LowerLetters, CHOOSE i \in 1..Len(UpperLetters) : CharAt(UpperLetters, i) = c)
    ELSE c

upper_char(c) ==
    IF c \in LowerSet
    THEN CharAt(UpperLetters, CHOOSE i \in 1..Len(LowerLetters) : CharAt(LowerLetters, i) = c)
    ELSE c

RECURSIVE lower(_)
\* str.lower()
lower(s) ==
    IF Len(s) = 0 THEN ""
    ELSE IF Len(s) = 1 THEN lower_char(s)
    ELSE lower(SubSeq(s, 1, Len(s) \div 2)) \o lower(SubSeq(s, Len(s) \div 2 + 1, Len(s)))

RECURSIVE upper(_)
\* str.upper()
upper(s) ==
    IF Len(s) = 0 THEN ""
    ELSE IF Len(s) = 1 THEN upper_char(s)
    ELSE upper(SubSeq(s, 1, Len(s) \div 2)) \o upper(SubSeq(s, Len(s) \div 2 + 1, Len(s)))

RECURSIVE strip(_)
\* str.strip()
strip(s) ==
    IF Len(s) = 0 THEN s
    ELSE IF CharAt(s, 1) \in SpaceSet THEN strip(SubSeq(s, 2, Len(s)))
    ELSE IF CharAt(s, Len(s)) \in SpaceSet THEN strip(SubSeq(s, 1, Len(s) - 1))
    ELSE s

DigitSet == {DigitChar(k) : k \in 0..9}
DigitVal(c) == CHOOSE k \in 0..9 : DigitChar(k) = c

\* the number a string of decimal digits denotes, Python's int(s)
RECURSIVE int(_)
int(s) ==
    IF Len(s) = 0 THEN 0
    ELSE 10 * int(SubSeq(s, 1, Len(s) - 1)) + DigitVal(SubSeq(s, Len(s), Len(s)))

\* ------------------------------------------------- the Gregorian calendar
\* datetime(y, m, d), datetime + timedelta(days) and strftime('%Y-%m-%d'),
\* as Python's datetime module computes them (proleptic Gregorian ordinals).

is_leap(y) == y % 4 = 0 /\ (y % 100 # 0 \/ y % 400 = 0)

days_in_month(y, m) ==
    IF m = 2 THEN (IF is_leap(y) THEN 29 ELSE 28)
    ELSE IF m \in {4, 6, 9, 11} THEN 30 ELSE 31

\* datetime(y, m, d) raises ValueError unless this holds
valid_ad(y, m, d) ==
    /\ y >= 1 /\ y <= 9999
    /\ m >= 1 /\ m <= 12
    /\ d >= 1 /\ d <= days_in_month(y, m)

RECURSIVE days_before_month(_, _)
days_before_month(y, m) ==
    IF m <= 1 THEN 0 ELSE days_before_month(y, m - 1) + days_in_month(y, m - 1)

days_before_year(year) ==
    LET y == year - 1 IN y * 365 + (y \div 4) - (y \div 100) + (y \div 400)

ymd2ord(y, m, d) == days_before_year(y) + days_before_month(y, m) + d

\* the month of the year `y` that holds day number k (0-based) of that year
RECURSIVE month_of(_, _, _)
month_of(y, k, m) ==
    IF k < days_before_month(y, m + 1) THEN m ELSE month_of(y, k, m + 1)

ord2ymd(ord) ==
    LET n0 == ord - 1
        n400 == n0 \div 146097
        r400 == n0 % 146097
        n100 == r400 \div 36524
        r100 == r400 % 36524
        n4 == r100 \div 1461
        r4 == r100 % 1461
        n1 == r4 \div 365
        r1 == r4 % 365
        year == n400 * 400 + 1 + n100 * 100 + n4 * 4 + n1
    IN IF n1 = 4 \/ n100 = 4
       THEN <<year - 1, 12, 31>>
       ELSE LET m == month_of(year, r1, 1)
            IN <<year, m, r1 - days_before_month(year, m) + 1>>

\* date + timedelta(days): OverflowError when the result leaves years 1..9999
add_days(date, days) ==
    LET ord == ymd2ord(date[1], date[2], date[3]) + days
    IN IF ord < 1 \/ ord > ymd2ord(9999, 12, 31) THEN Raise ELSE Return(ord2ymd(ord))

\* strftime('%Y-%m-%d') of a date with a four-digit year
strftime(date) ==
    DigitChar(date[1] \div 1000) \o DigitChar((date[1] \div 100) % 10)
        \o DigitChar((date[1] \div 10) % 10) \o DigitChar(date[1] % 10) \o "-"
        \o DigitChar(date[2] \div 10) \o DigitChar(date[2] % 10) \o "-"
        \o DigitChar(date[3] \div 10) \o DigitChar(date[3] % 10)

Min(a, b) == IF a <= b THEN a ELSE b

MinOf(S) == CHOOSE x \in S : \A y \in S : x <= y
MaxOf(S) == CHOOSE x \in S : \A y \in S : x >= y

RECURSIVE SumSeq(_, _, _)
\* s[from] + ... + s[to - 1], Python's  for m in range(from, to): days += s[m - 1]
SumSeq(s, from, to) ==
    IF from >= to THEN 0 ELSE s[from] + SumSeq(s, from + 1, to)

\* ------------------------------------------------------- BSToADConverter

RECURSIVE SumYears(_, _, _)
\* for y in range(from, to): days += sum(T[y]) if y in T else 365
SumYears(T, from, to) ==
    IF from >= to THEN 0
    ELSE (IF from \in DOMAIN T THEN SumSeq(T[from], 1, 13) ELSE 365)
         + SumYears(T, from + 1, to)

_calculate_days_backwards(T, bs_year, bs_month, bs_day) ==
    LET ref == REFERENCE_BS
    IN IF bs_year = ref.year
       THEN SumSeq(T[bs_year], bs_month, ref.month) + (ref.day - bs_day)
       ELSE (T[bs_year][bs_month] - bs_day)
            + SumSeq(T[bs_year], bs_month + 1, 13)
            + SumYears(T, bs_year + 1, ref.year)
            + SumSeq(T[ref.year], 1, ref.month)
            + ref.day

\* _calculate_days_from_reference with  days += bs_day  in the anchor's year
_calculate_days_from_reference_no_ref_day(T, bs_year, bs_month, bs_day) ==
    LET ref == REFERENCE_BS
    IN IF bs_year < ref.year \/ (bs_year = ref.year /\ bs_month < ref.month)
       THEN 0 - _calculate_days_backwards(T, bs_year, bs_month, bs_day)
       ELSE IF bs_year = ref.year
       THEN SumSeq(T[bs_year], ref.month, bs_month) + bs_day
       ELSE SumSeq(T[ref.year], ref.month, 13) - (ref.day - 1)
            + SumYears(T, ref.year + 1, bs_year)
            + SumSeq(T[bs_year], 1, bs_month)
            + bs_day

\* _calculate_days_from_reference without the loop over the years between
_calculate_days_from_reference_no_years(T, bs_year, bs_month, bs_day) ==
    LET ref == REFERENCE_BS
    IN IF bs_year < ref.year \/ (bs_year = ref.year /\ bs_month < ref.month)
       THEN 0 - _calculate_days_backwards(T, bs_year, bs_month, bs_day)
       ELSE IF bs_year = ref.year
       THEN SumSeq(T[bs_year], ref.month, bs_month) + (bs_day - ref.day)
       ELSE SumSeq(T[ref.year], ref.month, 13) - (ref.day - 1)
            + SumSeq(T[bs_year], 1, bs_month)
            + bs_day

_calculate_days_from_reference(T, bs_year, bs_month, bs_day) ==
    LET ref == REFERENCE_BS
    IN IF bs_year < ref.year \/ (bs_year = ref.year /\ bs_month < ref.month)
       THEN 0 - _calculate_days_backwards(T, bs_year, bs_month, bs_day)
       ELSE IF bs_year = ref.year
       THEN SumSeq(T[bs_year], ref.month, bs_month) + (bs_day - ref.day)
       ELSE SumSeq(T[ref.year], ref.month, 13) - (ref.day - 1)
            + SumYears(T, ref.year + 1, bs_year)
            + SumSeq(T[bs_year], 1, bs_month)
            + bs_day

\* _approximate_bs_to_ad with  if bs_month > 10
_approximate_bs_to_ad_late_quarter(bs_year, bs_month, bs_day) ==
    LET ad_year == IF bs_month > 10 THEN bs_year - 57 + 1 ELSE bs_year - 57
        ad_month == IF bs_month > 10 THEN bs_month - 9 ELSE bs_month + 3
        ad_day == Min(bs_day, 28)
    IN IF valid_ad(ad_year, ad_month, ad_day)
       THEN Return(Some(strftime(<<ad_year, ad_month, ad_day>>)))
       ELSE IF valid_ad(ad_year, ad_month, 1)
       THEN Return(Some(strftime(<<ad_year, ad_month, 1>>)))
       ELSE Raise

\* _approximate_bs_to_ad without  ad_year += 1  for the months from 10 on
_approximate_bs_to_ad_same_year(bs_year, bs_month, bs_day) ==
    LET ad_year == bs_year - 57
        ad_month == IF bs_month >= 10 THEN bs_month - 9 ELSE bs_month + 3
        ad_day == Min(bs_day, 28)
    IN IF valid_ad(ad_year, ad_month, ad_day)
       THEN Return(Some(strftime(<<ad_year, ad_month, ad_day>>)))
       ELSE IF valid_ad(ad_year, ad_month, 1)
       THEN Return(Some(strftime(<<ad_year, ad_month, 1>>)))
       ELSE Raise

\* the body of _approximate_bs_to_ad: its try, its bare except, and the
\* ValueError that the except clause's own datetime(...) can raise
_approximate_bs_to_ad(bs_year, bs_month, bs_day) ==
    LET ad_year == IF bs_month >= 10 THEN bs_year - 57 + 1 ELSE bs_year - 57
        ad_month == IF bs_month >= 10 THEN bs_month - 9 ELSE bs_month + 3
        ad_day == Min(bs_day, 28)
    IN IF valid_ad(ad_year, ad_month, ad_day)
       THEN Return(Some(strftime(<<ad_year, ad_month, ad_day>>)))
       ELSE IF valid_ad(ad_year, ad_month, 1)
       THEN Return(Some(strftime(<<ad_year, ad_month, 1>>)))
       ELSE Raise

\* the try block with  bs_day >= BS_MONTH_DAYS[bs_year][bs_month - 1]
bs_to_ad_try_day_off_by_one(T, bs_year, bs_month, bs_day) ==
    IF bs_year \notin DOMAIN T
    THEN _approximate_bs_to_ad(bs_year, bs_month, bs_day)
    ELSE IF bs_month < 1 \/ bs_month > 12
    THEN Return(None)
    ELSE IF bs_day < 1 \/ bs_day >= T[bs_year][bs_month]
    THEN Return(None)
    ELSE LET days_diff == _calculate_days_from_reference(T, bs_year, bs_month, bs_day)
             ad_date == add_days(REFERENCE_AD, days_diff)
         IN IF ad_date.kind = "raise" THEN Raise
            ELSE Return(Some(strftime(ad_date.value)))

\* the try block with  bs_day < 0
bs_to_ad_try_day_zero(T, bs_year, bs_month, bs_day) ==
    IF bs_year \notin DOMAIN T
    THEN _approximate_bs_to_ad(bs_year, bs_month, bs_day)
    ELSE IF bs_month < 1 \/ bs_month > 12
    THEN Return(None)
    ELSE IF bs_day < 0 \/ bs_day > T[bs_year][bs_month]
    THEN Return(None)
    ELSE LET days_diff == _calculate_days_from_reference(T, bs_year, bs_month, bs_day)
             ad_date == add_days(REFERENCE_AD, days_diff)
         IN IF ad_date.kind = "raise" THEN Raise
            ELSE Return(Some(strftime(ad_date.value)))

\* the try block of bs_to_ad
bs_to_ad_try(T, bs_year, bs_month, bs_day) ==
    IF bs_year \notin DOMAIN T
    THEN _approximate_bs_to_ad(bs_year, bs_month, bs_day)
    ELSE IF bs_month < 1 \/ bs_month > 12
    THEN Return(None)
    ELSE IF bs_day < 1 \/ bs_day > T[bs_year][bs_month]
    THEN Return(None)
    ELSE LET days_diff == _calculate_days_from_reference(T, bs_year, bs_month, bs_day)
             ad_date == add_days(REFERENCE_AD, days_diff)
         IN IF ad_date.kind = "raise" THEN Raise
            ELSE Return(Some(strftime(ad_date.value)))

\* bs_to_ad without its except clause
bs_to_ad_no_except(T, bs_year, bs_month, bs_day) ==
    bs_to_ad_try(T, bs_year, bs_month, bs_day)

\* bs_to_ad: the try block, and  except Exception: return None
bs_to_ad(T, bs_year, bs_month, bs_day) ==
    LET r == bs_to_ad_try(T, bs_year, bs_month, bs_day)
    IN IF r.kind = "raise" THEN Return(None) ELSE r

\* --------------------------------------------------------- parse_bs_date
\* re.search(r'(\d{1,2})(?:st|nd|rd|th)?\s+(\w+)[,\s]+(\d{4})', s, re.IGNORECASE):
\* the first match in the order the pattern is tried.  A search result and a
\* parse are held as sets with at most one element, the empty set for None.

Chars(s) == [j \in 1..Len(s) |-> CharAt(s, j)]

\* the characters cs[from..to] exist and all lie in the class C
AllIn(cs, from, to, C) ==
    /\ to <= Len(cs)
    /\ \A j \in from..to : cs[j] \in C

\* how many characters of cs from position p on lie in the class C
RunLen(cs, p, C) == Cardinality({j \in p..Len(cs) : AllIn(cs, p, j, C)})

OrdinalSuffixes == {"st", "nd", "rd", "th"}

\* every way the pattern matches the characters cs: start i, k day digits, f
\* suffix characters, a of \s, b of \w, c of [,\s], then four digits
Matches(cs) ==
    UNION {UNION {UNION {UNION {UNION {
        {[i |-> i, k |-> k, f |-> f, a |-> a, b |-> b, c |-> c]
            : c \in {x \in 1..RunLen(cs, i + k + f + a + b, SepSet) :
                       AllIn(cs, i + k + f + a + b + x, i + k + f + a + b + x + 3, DigitSet)}}
        : b \in 1..RunLen(cs, i + k + f + a, WordSet)}
        : a \in 1..RunLen(cs, i + k + f, SpaceSet)}
        : f \in {x \in {0, 2} :
                   \/ x = 0
                   \/ /\ i + k + 1 <= Len(cs)
                      /\ lower_char(cs[i + k]) \o lower_char(cs[i + k + 1]) \in OrdinalSuffixes}}
        : k \in {x \in {1, 2} : AllIn(cs, i, i + x - 1, DigitSet)}}
        : i \in 1..Len(cs)}

\* x is tried before y: the leftmost start first, then at each quantifier in
\* turn the longer repetition first (two digits before one, the suffix before
\* no suffix, more of \s, of \w, of [,\s] before less)
TriedBefore(x, y) ==
    \/ x.i < y.i
    \/ x.i = y.i /\ x.k > y.k
    \/ x.i = y.i /\ x.k = y.k /\ x.f > y.f
    \/ x.i = y.i /\ x.k = y.k /\ x.f = y.f /\ x.a > y.a
    \/ x.i = y.i /\ x.k = y.k /\ x.f = y.f /\ x.a = y.a /\ x.b > y.b
    \/ x.i = y.i /\ x.k = y.k /\ x.f = y.f /\ x.a = y.a /\ x.b = y.b /\ x.c > y.c

\* the groups with group (1) cut to one digit, as under (\d)
Groups_day_one_digit(s, m) ==
    [day |-> SubSeq(s, m.i, m.i),
     month_name |-> SubSeq(s, m.i + m.k + m.f + m.a, m.i + m.k + m.f + m.a + m.b - 1),
     year |-> SubSeq(s, m.i + m.k + m.f + m.a + m.b + m.c,
                     m.i + m.k + m.f + m.a + m.b + m.c + 3)]

\* the groups (1), (2), (3) of a match
Groups(s, m) ==
    [day |-> SubSeq(s, m.i, m.i + m.k - 1),
     month_name |-> SubSeq(s, m.i + m.k + m.f + m.a, m.i + m.k + m.f + m.a + m.b - 1),
     year |-> SubSeq(s, m.i + m.k + m.f + m.a + m.b + m.c,
                     m.i + m.k + m.f + m.a + m.b + m.c + 3)]

\* re.search: the match that is tried first
First(M) == {x \in M : \A y \in M : x = y \/ TriedBefore(x, y)}

re_search(s) == {Groups(s, m) : m \in First(Matches(Chars(s)))}

\* normalize_month_name without lower()
normalize_month_name_no_lower(month_name) ==
    LET month_stripped == strip(month_name)
    IN IF month_stripped \in DOMAIN BS_MONTHS THEN Some(BS_MONTHS[month_stripped]) ELSE None

normalize_month_name(month_name) ==
    LET month_lower == strip(lower(month_name))
    IN IF month_lower \in DOMAIN BS_MONTHS THEN Some(BS_MONTHS[month_lower]) ELSE None

\* the rest of parse_bs_date with a check of the day against 1..31
parse_groups_checks_day(g) ==
    {[year |-> int(g.year), month |-> month, day |-> int(g.day)]
        : month \in {x \in {normalize_month_name(g.month_name)[j]
                              : j \in DOMAIN normalize_month_name(g.month_name)} :
                       x # 0 /\ int(g.day) >= 1 /\ int(g.day) <= 31}}

\* the rest of parse_bs_date, once the pattern has matched with the groups g
parse_groups(g) ==
    {[year |-> int(g.year), month |-> month, day |-> int(g.day)]
        : month \in {x \in {normalize_month_name(g.month_name)[j]
                              : j \in DOMAIN normalize_month_name(g.month_name)} : x # 0}}

\* parse_bs_date as the set of what it returns: empty for None
parse_bs_date_set(bs_date_str) ==
    IF bs_date_str = "" THEN {}
    ELSE UNION {parse_groups(g) : g \in re_search(bs_date_str)}

Optional(S) == IF S = {} THEN None ELSE Some(CHOOSE x \in S : TRUE)

parse_bs_date(bs_date_str) == Optional(parse_bs_date_set(bs_date_str))

convert_bs_date_string(T, bs_date_str) ==
    LET p == parse_bs_date(bs_date_str)
    IN IF p = None THEN Return(None)
       ELSE bs_to_ad(T, p[1].year, p[1].month, p[1].day)

\* the branch of bs_to_ad that computes the result (line 79)
bs_to_ad_path(T, bs_year) ==
    IF bs_year \notin DOMAIN T THEN "approx" ELSE "exact"

\* ----------------------------------------------------- _extract_date_range
\* The three range patterns, each searched with re.IGNORECASE.  A match is the
\* tuple of the positions where its parts end, the start of the match first.
\* A TLA+ string holds ASCII only: in the texts of the model the en dash
\* (U+2013) is written ~ and the em dash (U+2014) is written ^.

EN_DASH == "~"
EM_DASH == "^"

\* where a run of at least lo characters of the class C that starts at p can end
RunEnds(cs, p, C, lo) ==
    {q \in (p + lo)..(Len(cs) + 1) : \A j \in p..(q - 1) : cs[j] \in C}

\* where \d{1,2} at p can end
DigitEnds(cs, p) == {q \in RunEnds(cs, p, DigitSet, 1) : q <= p + 2}

\* where the word w (in lower case) at p ends, under IGNORECASE
LiteralEnds(cs, p, w) ==
    {q \in {p + Len(w)} :
        /\ q <= Len(cs) + 1
        /\ \A j \in 1..Len(w) : lower_char(cs[p + j - 1]) = CharAt(w, j)}

\* where (?:st|nd|rd|th) at p ends
SuffixEnds(cs, p) == UNION {LiteralEnds(cs, p, w) : w \in OrdinalSuffixes}

\* where ,? at p can end
CommaEnds(cs, p) == {q \in {p, p + 1} : q = p \/ (p <= Len(cs) /\ cs[p] = ",")}

\* where \s* at p can end so that (\d{4}) follows
YearStarts(cs, p) ==
    {q \in RunEnds(cs, p, SpaceSet, 0) :
        /\ q + 3 <= Len(cs)
        /\ \A j \in q..(q + 3) : cs[j] \in DigitSet}

\* (\d{1,2})(?:st|nd|rd|th)\s+(\w+)\s*[-–—]\s*(\d{1,2})(?:st|nd|rd|th)\s+(\w+),?\s*(\d{4})
\* <<start, day, suffix, \s+, \w+, \s*, \s*, day, suffix, \s+, \w+, comma, \s*>>
Matches1(cs) ==
    UNION {UNION {UNION {UNION {UNION {UNION {UNION {UNION {UNION {UNION {UNION {UNION {
        {<<p0, d1, s1, a1, w1, c1, c2, d2, s2, a2, w2, m, y>> : y \in YearStarts(cs, m)}
        : m \in CommaEnds(cs, w2)}
        : w2 \in RunEnds(cs, a2, WordSet, 1)}
        : a2 \in RunEnds(cs, s2, SpaceSet, 1)}
        : s2 \in SuffixEnds(cs, d2)}
        : d2 \in DigitEnds(cs, c2)}
        : c2 \in RunEnds(cs, c1 + 1, SpaceSet, 0)}
        : c1 \in {q \in RunEnds(cs, w1, SpaceSet, 0) : q <= Len(cs) /\ cs[q] \in {"-", EN_DASH, EM_DASH}}}
        : w1 \in RunEnds(cs, a1, WordSet, 1)}
        : a1 \in RunEnds(cs, s1, SpaceSet, 1)}
        : s1 \in SuffixEnds(cs, d1)}
        : d1 \in DigitEnds(cs, p0)}
        : p0 \in 1..Len(cs)}

\* (\d{1,2})(?:st|nd|rd|th)\s+(?:to|-)\s+(\d{1,2})(?:st|nd|rd|th)\s+(\w+),?\s*(\d{4})
\* <<start, day, suffix, \s+, to|-, \s+, day, suffix, \s+, \w+, comma, \s*>>
Matches2(cs) ==
    UNION {UNION {UNION {UNION {UNION {UNION {UNION {UNION {UNION {UNION {UNION {
        {<<p0, d1, s1, a1, t, a2, d2, s2, a3, w, m, y>> : y \in YearStarts(cs, m)}
        : m \in CommaEnds(cs, w)}
        : w \in RunEnds(cs, a3, WordSet, 1)}
        : a3 \in RunEnds(cs, s2, SpaceSet, 1)}
        : s2 \in SuffixEnds(cs, d2)}
        : d2 \in DigitEnds(cs, a2)}
        : a2 \in RunEnds(cs, t, SpaceSet, 1)}
        : t \in LiteralEnds(cs, a1, "to") \cup LiteralEnds(cs, a1, "-")}
        : a1 \in RunEnds(cs, s1, SpaceSet, 1)}
        : s1 \in SuffixEnds(cs, d1)}
        : d1 \in DigitEnds(cs, p0)}
        : p0 \in 1..Len(cs)}

\* from\s+(\d{1,2})(?:st|nd|rd|th)\s+(\w+)\s+to\s+(\d{1,2})(?:st|nd|rd|th)\s+(\w+),?\s*(\d{4})
\* <<start, from, \s+, day, suffix, \s+, \w+, \s+, to, \s+, day, suffix, \s+, \w+, comma, \s*>>
Matches3(cs) ==
    UNION {UNION {UNION {UNION {UNION {UNION {UNION {UNION {UNION {UNION {UNION {UNION {UNION {UNION {UNION {
        {<<p0, f, a0, d1, s1, a1, w1, a2, t, a3, d2, s2, a4, w2, m, y>> : y \in YearStarts(cs, m)}
        : m \in CommaEnds(cs, w2)}
        : w2 \in RunEnds(cs, a4, WordSet, 1)}
        : a4 \in RunEnds(cs, s2, SpaceSet, 1)}
        : s2 \in SuffixEnds(cs, d2)}
        : d2 \in DigitEnds(cs, a3)}
        : a3 \in RunEnds(cs, t, SpaceSet, 1)}
        : t \in LiteralEnds(cs, a2, "to")}
        : a2 \in RunEnds(cs, w1, SpaceSet, 1)}
        : w1 \in RunEnds(cs, a1, WordSet, 1)}
        : a1 \in RunEnds(cs, s1, SpaceSet, 1)}
        : s1 \in SuffixEnds(cs, d1)}
        : d1 \in DigitEnds(cs, a0)}
        : a0 \in RunEnds(cs, f, SpaceSet, 1)}
        : f \in LiteralEnds(cs, p0, "from")}
        : p0 \in 1..Len(cs)}

\* the match x is tried before y: the leftmost start first, then at each part
\* in turn the longer repetition first
Earlier(x, y) ==
    \E j \in 1..Len(x) :
        /\ \A h \in 1..(j - 1) : x[h] = y[h]
        /\ IF j = 1 THEN x[1] < y[1] ELSE x[j] > y[j]

\* re.search: the match that is tried first
FirstMatch(M) == {x \in M : \A y \in M : x = y \/ Earlier(x, y)}

\* the phrase with the month put first
date_phrase_month_first(day, month, year) == month \o " " \o day \o " " \o year

\* f"{day} {month} {year}"
date_phrase(day, month, year) == day \o " " \o month \o " " \o year

\* pattern 1 and what lines 386-395 return for its match
search_pattern1(text) ==
    {[start |-> date_phrase(SubSeq(text, x[1], x[2] - 1), SubSeq(text, x[4], x[5] - 1),
                            SubSeq(text, x[13], x[13] + 3)),
      end |-> date_phrase(SubSeq(text, x[7], x[8] - 1), SubSeq(text, x[10], x[11] - 1),
                          SubSeq(text, x[13], x[13] + 3))]
        : x \in FirstMatch(Matches1(Chars(text)))}

\* pattern 2 and what lines 402-410 return for its match
search_pattern2(text) ==
    {[start |-> date_phrase(SubSeq(text, x[1], x[2] - 1), SubSeq(text, x[9], x[10] - 1),
                            SubSeq(text, x[12], x[12] + 3)),
      end |-> date_phrase(SubSeq(text, x[6], x[7] - 1), SubSeq(text, x[9], x[10] - 1),
                          SubSeq(text, x[12], x[12] + 3))]
        : x \in FirstMatch(Matches2(Chars(text)))}

\* pattern 3 and what lines 417-426 return for its match
search_pattern3(text) ==
    {[start |-> date_phrase(SubSeq(text, x[3], x[4] - 1), SubSeq(text, x[6], x[7] - 1),
                            SubSeq(text, x[16], x[16] + 3)),
      end |-> date_phrase(SubSeq(text, x[10], x[11] - 1), SubSeq(text, x[13], x[14] - 1),
                          SubSeq(text, x[16], x[16] + 3))]
        : x \in FirstMatch(Matches3(Chars(text)))}

\* the pattern whose match _extract_date_range returns: 0 when it returns None
matched_pattern(text) ==
    IF search_pattern1(text) # {} THEN 1
    ELSE IF search_pattern2(text) # {} THEN 2
    ELSE IF search_pattern3(text) # {} THEN 3
    ELSE 0

\* _extract_date_range with pattern 2 searched before pattern 1
_extract_date_range_pattern2_first(text) ==
    IF search_pattern2(text) # {} THEN Optional(search_pattern2(text))
    ELSE IF search_pattern1(text) # {} THEN Optional(search_pattern1(text))
    ELSE IF search_pattern3(text) # {} THEN Optional(search_pattern3(text))
    ELSE None

_extract_date_range(text) ==
    IF search_pattern1(text) # {} THEN Optional(search_pattern1(text))
    ELSE IF search_pattern2(text) # {} THEN Optional(search_pattern2(text))
    ELSE IF search_pattern3(text) # {} THEN Optional(search_pattern3(text))
    ELSE None

\* --------------------------------------------------- _extract_company_name

\* sub in s
contains(s, sub) ==
    \E p \in 1..(Len(s) - Len(sub) + 1) : SubSeq(s, p, p + Len(sub) - 1) = sub

\* s.split(sep)[0]: s up to the first place where sep stands, all of s when
\* sep does not stand in it
split_first(s, sep) ==
    IF contains(s, sep)
    THEN SubSeq(s, 1, (CHOOSE p \in 1..(Len(s) - Len(sep) + 1) :
                          /\ SubSeq(s, p, p + Len(sep) - 1) = sep
                          /\ \A q \in 1..(p - 1) : SubSeq(s, q, q + Len(sep) - 1) # sep) - 1)
    ELSE s

RECURSIVE split(_)
\* s.split(): the words of s, the runs of characters that are not whitespace
split(s) ==
    LET word_len == Cardinality({q \in 1..Len(s) :
                                    \A j \in 1..q : CharAt(s, j) \notin SpaceSet})
    IN IF Len(s) = 0 THEN <<>>
       ELSE IF CharAt(s, 1) \in SpaceSet THEN split(SubSeq(s, 2, Len(s)))
       ELSE <<SubSeq(s, 1, word_len)>> \o split(SubSeq(s, word_len + 1, Len(s)))

RECURSIVE join(_)
\* ' '.join(words)
join(words) ==
    IF Len(words) = 0 THEN ""
    ELSE IF Len(words) = 1 THEN words[1]
    ELSE words[1] \o " " \o join(Tail(words))

\* words[:k]
take(words, k) == SubSeq(words, 1, Min(k, Len(words)))

separators == <<" - ", " " \o EN_DASH \o " ", " " \o EM_DASH \o " ", " IPO", " Share">>
keywords == <<" of ", " from ", " opens">>

\* scraper.py
_extract_company_name(text) ==
    LET by_separator == {k \in 1..Len(separators) :
                            /\ contains(text, separators[k])
                            /\ Len(strip(split_first(text, separators[k]))) > 3}
        by_keyword == {k \in 1..Len(keywords) :
                          /\ contains(lower(text), keywords[k])
                          /\ Len(strip(split_first(text, keywords[k]))) > 3}
    IN IF by_separator # {}
       THEN Some(strip(split_first(text, separators[MinOf(by_separator)])))
       ELSE IF by_keyword # {}
       THEN Some(strip(split_first(text, keywords[MinOf(by_keyword)])))
       ELSE IF Len(split(text)) >= 3 THEN Some(join(take(split(text), 5)))
       ELSE None

\* ^(.+?)\s+(?:w1|w2|...) under IGNORECASE, followed by \s+ when spaced: the
\* lengths group (1) can have
PrefixLens(cs, literals, spaced) ==
    {j \in 1..Len(cs) :
        /\ \A h \in 1..j : cs[h] # "\n"
        /\ \E a \in RunEnds(cs, j + 1, SpaceSet, 1) :
              \E w \in literals :
                 \E e \in LiteralEnds(cs, a, w) :
                    spaced => (e <= Len(cs) /\ cs[e] \in SpaceSet)}

\* group (1) of the search: the lazy (.+?) takes the shortest prefix
prefix_search(text, literals, spaced) ==
    {SubSeq(text, 1, j) : j \in {x \in PrefixLens(Chars(text), literals, spaced) :
                                   \A y \in PrefixLens(Chars(text), literals, spaced) : x <= y}}

standalone_separators == <<" - IPO", " " \o EN_DASH \o " IPO", " " \o EM_DASH \o " IPO", " IPO ", " Share">>

\* the candidates of the fallback: ' '.join(words[:word_count]) under 100 characters
fallback_counts(words) ==
    {c \in 3..Min(7, Len(words)) : Len(join(take(words, c))) < 100}

\* scraper_standalone.py with the separators looked for before 'is going to issue'
standalone__extract_company_name_separator_first(text) ==
    LET issue == prefix_search(text, {"is going to issue"}, FALSE)
        by_separator == {k \in 1..Len(standalone_separators) :
                            /\ contains(text, standalone_separators[k])
                            /\ Len(strip(split_first(text, standalone_separators[k]))) > 3
                            /\ Len(strip(split_first(text, standalone_separators[k]))) < 100}
        by_keyword == {k \in 1..Len(keywords) :
                          /\ contains(lower(text), keywords[k])
                          /\ Len(strip(split_first(text, keywords[k]))) > 3
                          /\ Len(strip(split_first(text, keywords[k]))) < 100}
        verb == {c \in {strip(g) : g \in prefix_search(text, {"is", "has", "will"}, TRUE)} :
                    Len(c) > 3 /\ Len(c) < 100}
    IN IF by_separator # {}
       THEN Some(strip(split_first(text, standalone_separators[MinOf(by_separator)])))
       ELSE IF issue # {} THEN Optional({strip(g) : g \in issue})
       ELSE IF by_keyword # {}
       THEN Some(strip(split_first(text, keywords[MinOf(by_keyword)])))
       ELSE IF verb # {} THEN Optional(verb)
       ELSE IF fallback_counts(split(text)) # {}
       THEN Some(join(take(split(text), MaxOf(fallback_counts(split(text))))))
       ELSE None

\* scraper_standalone.py
standalone__extract_company_name(text) ==
    LET issue == prefix_search(text, {"is going to issue"}, FALSE)
        by_separator == {k \in 1..Len(standalone_separators) :
                            /\ contains(text, standalone_separators[k])
                            /\ Len(strip(split_first(text, standalone_separators[k]))) > 3
                            /\ Len(strip(split_first(text, standalone_separators[k]))) < 100}
        by_keyword == {k \in 1..Len(keywords) :
                          /\ contains(lower(text), keywords[k])
                          /\ Len(strip(split_first(text, keywords[k]))) > 3
                          /\ Len(strip(split_first(text, keywords[k]))) < 100}
        verb == {c \in {strip(g) : g \in prefix_search(text, {"is", "has", "will"}, TRUE)} :
                    Len(c) > 3 /\ Len(c) < 100}
    IN IF issue # {} THEN Optional({strip(g) : g \in issue})
       ELSE IF by_separator # {}
       THEN Some(strip(split_first(text, standalone_separators[MinOf(by_separator)])))
       ELSE IF by_keyword # {}
       THEN Some(strip(split_first(text, keywords[MinOf(by_keyword)])))
       ELSE IF verb # {} THEN Optional(verb)
       ELSE IF fallback_counts(split(text)) # {}
       THEN Some(join(take(split(text), MaxOf(fallback_counts(split(text))))))
       ELSE None

\* --------------------------------------------------------- the scraper
\* MerolaganiScraper of scraper.py and of scraper_standalone.py.  A call
\* gives [value, out]: what it returns and the lines it prints or logs,
\* each line with the announcement text it is about ("" for none).

Programs == {"scraper", "scraper_standalone"}

IPO_URL == "https://www.merolagani.com/Ipo.aspx?type=upcoming"

RECURSIVE str(_)
\* str(k) of a natural number, as an f-string renders it
str(k) == IF k < 10 THEN DigitChar(k) ELSE str(k \div 10) \o DigitChar(k % 10)

Line(about, line) == [about |-> about, line |-> line]

\* an Optional string as an f-string renders it
fstr(v) == IF v = None THEN "None" ELSE v[1]

\* the truth value Python gives an Optional string: None and '' are false
truthy(v) == v # None /\ v[1] # ""

\* link.get_text(strip=True) of a link with a single string
get_text(link_text) == strip(link_text)

\* the _extract_company_name of the program
company_name_of(program, text) ==
    IF program = "scraper" THEN _extract_company_name(text)
    ELSE standalone__extract_company_name(text)

\* what bs_to_ad prints (logs) when it catches an exception; the text of the
\* exception is left out
bs_to_ad_out(T, bs_date_str) ==
    LET printed(p) ==
            IF p # None /\ bs_to_ad_try(T, p[1].year, p[1].month, p[1].day).kind = "raise"
            THEN <<Line("", "Error converting BS to AD (" \o str(p[1].year) \o "/"
                              \o str(p[1].month) \o "/" \o str(p[1].day) \o ")")>>
            ELSE <<>>
    IN printed(parse_bs_date(bs_date_str))

\* A media div is [media_body, link, text]: whether it holds a div of class
\* media-body, whether that holds a link, and the string of the link.
_parse_media_div(program, media_div) ==
    LET processing(announcement_text) ==
            IF program = "scraper"
            THEN <<Line(announcement_text,
                        "Processing announcement: "
                            \o SubSeq(announcement_text, 1, Min(100, Len(announcement_text)))
                            \o "...")>>
            ELSE <<>>
        \* lines 314-335 with the local variables of the method
        extracted(announcement_text, company_name, date_info) ==
            IF /\ ~contains(lower(announcement_text), "ipo")
               /\ ~contains(lower(announcement_text), "share")
            THEN [value |-> None, out |-> <<>>]
            ELSE IF truthy(company_name) /\ date_info # None
            THEN [value |-> Some([company |-> company_name[1],
                                  startDateBS |-> date_info[1].start,
                                  endDateBS |-> date_info[1].end,
                                  rawText |-> announcement_text]),
                  out |-> processing(announcement_text)]
            ELSE [value |-> None, out |-> processing(announcement_text)]
        read(announcement_text) ==
            extracted(announcement_text, company_name_of(program, announcement_text),
                      _extract_date_range(announcement_text))
    IN IF ~media_div.media_body THEN [value |-> None, out |-> <<>>]
       ELSE IF ~media_div.link THEN [value |-> None, out |-> <<>>]
       ELSE read(get_text(media_div.text))

\* The parsed page is [announcement_list, media_divs]: whether one of the
\* three searches for the announcement list finds a container, and the media
\* divs found (in it, or on the page).

\* the media divs the pages are made of: announcements that give a record
\* (one of them with a range whose start month follows its end month),
\* announcements that fail at one stage or another, and divs without a
\* media-body or without a link
MediaDivs ==
    {[media_body |-> TRUE, link |-> TRUE, text |-> t]
        : t \in {"ABC Hydropower Ltd IPO opens from 1st Chaitra to 5th Chaitra, 2082",
                 "  Nabil Bank Limited - IPO opens 28th Magh - 4th Falgun, 2082 ",
                 "ABC Hydropower Ltd IPO opens soon",
                 "Nabil Bank opens from 1st Magh to 5th Magh, 2082",
                 "Sanima Bank IPO 30th Chaitra - 32nd Chaitra, 2082",
                 "Kumari Bank IPO 1st Foo - 5th Foo, 2082",
                 "AbcdefghijklmnopAbcdefghijklmnopAbcdefghijklmnopAbcdefghijklmnop"
                     \o "AbcdefghijklmnopAbcdefghijklmnopAbcdefghijklmnopAbcdefghijklmnop"
                     \o " IPO 1st Magh - 5th Magh, 2082",
                 "Old Hydro IPO 1st to 5th Magh, 2070",
                 "Himal Power Ltd IPO 28th Falgun - 4th Magh, 2082"}}
    \cup {[media_body |-> FALSE, link |-> FALSE, text |-> ""],
          [media_body |-> TRUE, link |-> FALSE, text |-> ""]}

\* _parse_media_div(media_div) of each program for the media divs of the pages
ParsedDivs ==
    [program \in Programs |->
        [media_div \in MediaDivs |-> _parse_media_div(program, media_div)]]

ParsedDiv(program, media_div) == ParsedDivs[program][media_div]

RECURSIVE parse_loop(_, _)
\* for media_div in media_divs: ... if ipo_data: ipos.append(ipo_data)
parse_loop(program, media_divs) ==
    LET turn(before, ipo_data) ==
            [value |-> before.value \o ipo_data.value, out |-> before.out \o ipo_data.out]
    IN IF Len(media_divs) = 0 THEN [value |-> <<>>, out |-> <<>>]
       ELSE turn(parse_loop(program, SubSeq(media_divs, 1, Len(media_divs) - 1)),
                 ParsedDiv(program, media_divs[Len(media_divs)]))

\* the loop with a break at the first media div that gives None
RECURSIVE parse_loop_break(_, _)
parse_loop_break(program, media_divs) ==
    LET turn(ipo_data) ==
            IF ipo_data.value = None THEN [value |-> <<>>, out |-> ipo_data.out]
            ELSE [value |-> ipo_data.value \o parse_loop_break(program, Tail(media_divs)).value,
                  out |-> ipo_data.out \o parse_loop_break(program, Tail(media_divs)).out]
    IN IF Len(media_divs) = 0 THEN [value |-> <<>>, out |-> <<>>]
       ELSE turn(ParsedDiv(program, media_divs[1]))

\* the list of lines 251/219 printed at the head of _parse_media_list
found_lines(program, soup) ==
    IF program = "scraper"
    THEN IF soup.announcement_list
         THEN <<Line("", "Found " \o str(Len(soup.media_divs)) \o " media divs in announcement list")>>
         ELSE <<Line("", "Warning: Could not find announcement-list div"),
                Line("", "Fallback: Found " \o str(Len(soup.media_divs)) \o " media divs on page")>>
    ELSE IF soup.announcement_list
         THEN <<Line("", "Found " \o str(Len(soup.media_divs)) \o " media divs")>>
         ELSE <<Line("", "Could not find announcement list, trying fallback")>>

\* _parse_media_list with ipos.insert(0, ipo_data) for ipos.append(ipo_data)
RECURSIVE reverse(_)
reverse(q) == IF Len(q) = 0 THEN <<>> ELSE reverse(Tail(q)) \o <<q[1]>>

_parse_media_list_inserts_first(program, soup) ==
    LET listed(loop) == [value |-> reverse(loop.value),
                         out |-> found_lines(program, soup) \o loop.out]
    IN listed(parse_loop(program, soup.media_divs))

\* _parse_media_list with the loop left at the first media div that gives None
_parse_media_list_break(program, soup) ==
    LET listed(loop) == [value |-> loop.value, out |-> found_lines(program, soup) \o loop.out]
    IN listed(parse_loop_break(program, soup.media_divs))

_parse_media_list(program, soup) ==
    LET listed(loop) == [value |-> loop.value, out |-> found_lines(program, soup) \o loop.out]
    IN listed(parse_loop(program, soup.media_divs))

\* the entry _convert_dates_to_ad appends for ipo
ipo_entry(program, ipo, start_date_ad, end_date_ad) ==
    IF program = "scraper"
    THEN [company |-> ipo.company,
          startDateBS |-> ipo.startDateBS,
          endDateBS |-> ipo.endDateBS,
          startDateAD |-> start_date_ad,
          endDateAD |-> end_date_ad,
          rawText |-> ipo.rawText]
    ELSE [company |-> ipo.company, startDate |-> start_date_ad, endDate |-> end_date_ad]

\* the lines of the else branch of _convert_dates_to_ad
skip_lines(program, ipo, start_date_ad, end_date_ad) ==
    IF program = "scraper"
    THEN <<Line(ipo.rawText, "Warning: Could not convert dates for " \o ipo.company),
           Line(ipo.rawText, "  Start BS: " \o ipo.startDateBS \o " -> AD: " \o fstr(start_date_ad)),
           Line(ipo.rawText, "  End BS: " \o ipo.endDateBS \o " -> AD: " \o fstr(end_date_ad))>>
    ELSE <<Line(ipo.rawText, "Skipping " \o ipo.company \o " - date conversion failed")>>

\* one turn of the loop of _convert_dates_to_ad with the test on the start date alone
convert_one_start_only(T, program, ipo) ==
    LET turn(start_date_ad, end_date_ad, printed) ==
            IF truthy(start_date_ad)
            THEN [value |-> <<ipo_entry(program, ipo, fstr(start_date_ad), fstr(end_date_ad))>>,
                  out |-> printed]
            ELSE [value |-> <<>>,
                  out |-> printed \o skip_lines(program, ipo, start_date_ad, end_date_ad)]
    IN turn(IF ipo.startDateBS # ""
            THEN convert_bs_date_string(T, ipo.startDateBS).value ELSE None,
            IF ipo.endDateBS # ""
            THEN convert_bs_date_string(T, ipo.endDateBS).value ELSE None,
            bs_to_ad_out(T, ipo.startDateBS) \o bs_to_ad_out(T, ipo.endDateBS))

\* one turn of the loop of _convert_dates_to_ad, with the local variables of
\* the loop and the lines bs_to_ad prints on the way
convert_one(T, program, ipo) ==
    LET turn(start_date_ad, end_date_ad, printed) ==
            IF truthy(start_date_ad) /\ truthy(end_date_ad)
            THEN [value |-> <<ipo_entry(program, ipo, start_date_ad[1], end_date_ad[1])>>,
                  out |-> printed]
            ELSE [value |-> <<>>,
                  out |-> printed \o skip_lines(program, ipo, start_date_ad, end_date_ad)]
    IN turn(IF ipo.startDateBS # ""
            THEN convert_bs_date_string(T, ipo.startDateBS).value ELSE None,
            IF ipo.endDateBS # ""
            THEN convert_bs_date_string(T, ipo.endDateBS).value ELSE None,
            bs_to_ad_out(T, ipo.startDateBS) \o bs_to_ad_out(T, ipo.endDateBS))

RECURSIVE _convert_dates_to_ad(_, _, _)
_convert_dates_to_ad(T, program, ipos_bs) ==
    LET turn(before, last) ==
            [value |-> before.value \o last.value, out |-> before.out \o last.out]
    IN IF Len(ipos_bs) = 0 THEN [value |-> <<>>, out |-> <<>>]
       ELSE turn(_convert_dates_to_ad(T, program, SubSeq(ipos_bs, 1, Len(ipos_bs) - 1)),
                 convert_one(T, program, ipos_bs[Len(ipos_bs)]))

\* how the request and the parse of the page end: well, with a
\* requests.RequestException, or with another exception in BeautifulSoup
Responses == {"ok", "ConnectionError", "HTTPError", "ParserError"}

\* fetch_upcoming_ipos: the value returned, the lines printed, and ipos_bs
fetch_upcoming_ipos(T, program, response, soup) ==
    LET fetching == <<Line("", "Fetching IPOs from " \o IPO_URL
                                  \o (IF program = "scraper" THEN "..." ELSE ""))>>
        done(bs_list, ad_list) ==
            [value |-> ad_list.value,
             ipos_bs |-> bs_list.value,
             out |-> fetching \o <<Line("", "Response status: 200")>>
                     \o bs_list.out \o ad_list.out
                     \o <<Line("", IF program = "scraper"
                                   THEN "Found " \o str(Len(ad_list.value))
                                            \o " IPO entries with valid dates"
                                   ELSE "Successfully scraped " \o str(Len(ad_list.value))
                                            \o " IPOs")>>]
        parsed_list(bs_list) == done(bs_list, _convert_dates_to_ad(T, program, bs_list.value))
    IN IF response # "ok"
       THEN [value |-> <<>>,
             ipos_bs |-> <<>>,
             out |-> fetching
                     \o <<Line("", (IF program = "scraper_standalone" THEN "Error scraping: "
                                    ELSE IF response = "ParserError" THEN "Error parsing IPO data: "
                                    ELSE "Error fetching IPO data: ") \o response)>>]
       ELSE parsed_list(_parse_media_list(program, soup))

\* ------------------------------------------------------------ the inputs

YearSlack == 2
MonthSlack == 10
DaySlack == 2

\* BS years far from the table: two that fall before AD year 1, an ordinary
\* past year, and one that falls after AD year 9999
FarYears == {0, 56, 2070, 10057}

TableYears == DOMAIN BS_MONTH_DAYS

Years == ((MinOf(TableYears) - YearSlack)..(MaxOf(TableYears) + YearSlack)) \cup FarYears
Months == (1 - MonthSlack)..(12 + MonthSlack)
Days == (1 - DaySlack)..(32 + DaySlack)

NoShape == [kind |-> "free"]

Idle ==
    /\ phrase = ""
    /\ shape = NoShape
    /\ parsed = None
    /\ n = 0
    /\ ad = REFERENCE_AD

\* no scraper runs
IdleScraper ==
    /\ file = "scraper"
    /\ announcement = ""
    /\ company = None
    /\ date_range = None
    /\ pattern = 0
    /\ outcome = "ok"
    /\ page = [announcement_list |-> TRUE, media_divs |-> <<>>]
    /\ ipos = <<>>
    /\ returned = <<>>
    /\ stdout = <<>>

\* the tokens, the requests and the store of the backend
Tokens == {"t1", "t2"}
Clients == {"a", "b"}
NoRequest == [pc |-> "none", body |-> <<>>, response |-> None]

\* no request reaches the backend, no scheduler runs, no main runs
IdleBackend ==
    /\ table_ipos = <<>>
    /\ ipos_before = <<>>
    /\ requests = [c \in Clients |-> NoRequest]
    /\ got = None
    /\ table_fcm_tokens = <<>>
    /\ last_call = [t \in Tokens |-> "none"]
    /\ token_ids = [t \in Tokens |-> {}]
    /\ today = REFERENCE_AD
    /\ initialized = FALSE
    /\ send_fails = {}
    /\ attempts = <<>>
    /\ api_url = None
    /\ api = "ok"
    /\ posted = None
    /\ backup = None
    /\ exit_value = None

\* ------------------------------------------------------ calls of bs_to_ad

InitConv ==
    /\ pc = "call"
    /\ monthTable = BS_MONTH_DAYS
    /\ bs \in [year : Years, month : Months, day : Days]
    /\ result = None
    /\ raised = FALSE
    /\ path = "none"
    /\ Idle
    /\ IdleScraper
    /\ IdleBackend

\* one call bs_to_ad(bs.year, bs.month, bs.day)
BsToAd ==
    /\ pc = "call"
    /\ LET r == bs_to_ad(monthTable, bs.year, bs.month, bs.day)
       IN /\ raised' = (r.kind = "raise")
          /\ result' = IF r.kind = "raise" THEN None ELSE r.value
    /\ path' = bs_to_ad_path(monthTable, bs.year)
    /\ pc' = "done"
    /\ UNCHANGED <<monthTable, phrase, shape, parsed, bs, n, ad>>
    /\ UNCHANGED scraper_vars
    /\ UNCHANGED backend_vars

NextConv == BsToAd

SpecConv == InitConv /\ [][NextConv]_vars

\* ------------------------------------------------------ the calendar walk
\* The BS calendar is walked one day at a time from the anchor through the
\* month table while the Gregorian calendar is walked beside it, and
\* bs_to_ad is called on every BS day reached.

NextBsDay(T, d) ==
    IF d.day < T[d.year][d.month] THEN [d EXCEPT !.day = d.day + 1]
    ELSE IF d.month < 12 THEN [d EXCEPT !.month = d.month + 1, !.day = 1]
    ELSE [year |-> d.year + 1, month |-> 1, day |-> 1]

NextAdDay(g) ==
    IF g[3] < days_in_month(g[1], g[2]) THEN <<g[1], g[2], g[3] + 1>>
    ELSE IF g[2] < 12 THEN <<g[1], g[2] + 1, 1>>
    ELSE <<g[1] + 1, 1, 1>>

InitWalk ==
    /\ pc = "cursor"
    /\ monthTable = BS_MONTH_DAYS
    /\ bs = REFERENCE_BS
    /\ ad = REFERENCE_AD
    /\ n = 0
    /\ result = None
    /\ raised = FALSE
    /\ path = "none"
    /\ phrase = ""
    /\ shape = NoShape
    /\ parsed = None
    /\ IdleScraper
    /\ IdleBackend

\* bs_to_ad on the day the walk stands on
WalkConvert ==
    /\ pc = "cursor"
    /\ LET r == bs_to_ad(monthTable, bs.year, bs.month, bs.day)
       IN /\ raised' = (r.kind = "raise")
          /\ result' = IF r.kind = "raise" THEN None ELSE r.value
    /\ path' = bs_to_ad_path(monthTable, bs.year)
    /\ pc' = "converted"
    /\ UNCHANGED <<monthTable, phrase, shape, parsed, bs, n, ad>>
    /\ UNCHANGED scraper_vars
    /\ UNCHANGED backend_vars

\* one calendar day forward in both calendars
WalkStep ==
    /\ pc = "converted"
    /\ NextBsDay(monthTable, bs).year \in DOMAIN monthTable
    /\ bs' = NextBsDay(monthTable, bs)
    /\ ad' = NextAdDay(ad)
    /\ n' = n + 1
    /\ pc' = "cursor"
    /\ UNCHANGED <<monthTable, phrase, shape, parsed, result, raised, path>>
    /\ UNCHANGED scraper_vars
    /\ UNCHANGED backend_vars

NextWalk == WalkConvert \/ WalkStep

SpecWalk == InitWalk /\ [][NextWalk]_vars

\* ------------------------------------------------ calls of the parser
\* The phrases handed to the parser.  A written phrase spells a date as
\* <day><suffix> <month-name><sep><year>; shape remembers the date.  A free
\* phrase is put together from parts that may be missing or malformed.

MaxPhraseDay == 33

DayText(d) == IF d < 10 THEN DigitChar(d) ELSE DigitChar(d \div 10) \o DigitChar(d % 10)
DayTexts(d) == IF d < 10 THEN {DayText(d), "0" \o DayText(d)} ELSE {DayText(d)}

YearText(y) ==
    DigitChar(y \div 1000) \o DigitChar((y \div 100) % 10)
        \o DigitChar((y \div 10) % 10) \o DigitChar(y % 10)

capitalize(s) == upper(SubSeq(s, 1, 1)) \o SubSeq(s, 2, Len(s))
Spellings(name) == {name, capitalize(name), upper(name)}

Suffixes == {"", "st", "nd", "rd", "th", "ST", "Nd", "rD", "TH"}
Separators == {" ", ","}
PhraseYears == {0, 2070, 2081, 9999}

Written(d, dtext, suffix, name, spelling, sep, y) ==
    /\ phrase = dtext \o suffix \o " " \o spelling \o sep \o YearText(y)
    /\ shape = [kind |-> "written", year |-> y, name |-> name, day |-> d]

InitWritten ==
    \/ \E d \in 0..MaxPhraseDay, suffix \in Suffixes, sep \in Separators :
       \E dtext \in DayTexts(d), name \in {"magh", "falgun", "chait"} :
       \E spelling \in Spellings(name) :
          Written(d, dtext, suffix, name, spelling, sep, 2081)
    \/ \E d \in {1, 28}, suffix \in {"", "th"}, sep \in Separators :
       \E name \in DOMAIN BS_MONTHS, y \in PhraseYears :
       \E spelling \in Spellings(name) :
          Written(d, DayText(d), suffix, name, spelling, sep, y)
    \/ \E y \in TableYears, name \in DOMAIN BS_MONTHS :
       \E d \in 1..BS_MONTH_DAYS[y][BS_MONTHS[name]] :
          Written(d, DayText(d), "", name, name, " ", y)

InitFree ==
    /\ \E prefix \in {"", "opens ", "1", "7 Foo 2080 "},
          dtext \in {"28", "32", "123", ""},
          suffix \in {"", "th", "xx"},
          space \in {" ", "  ", ""},
          word \in {"Magh", "Foo", "Ma_gh", ""},
          sep \in {" ", ", ", "-", ""},
          ytext \in {"2081", "208", "20811"} :
          phrase = prefix \o dtext \o suffix \o space \o word \o sep \o ytext
    /\ shape = NoShape

NoDate == [year |-> 0, month |-> 0, day |-> 0]

InitParse ==
    /\ pc = "phrase"
    /\ monthTable = BS_MONTH_DAYS
    /\ InitWritten \/ InitFree
    /\ parsed = None
    /\ bs = NoDate
    /\ result = None
    /\ raised = FALSE
    /\ path = "none"
    /\ n = 0
    /\ ad = REFERENCE_AD
    /\ IdleScraper
    /\ IdleBackend

\* one call parse_bs_date(phrase)
ParseBsDate ==
    /\ pc = "phrase"
    /\ parsed' = parse_bs_date(phrase)
    /\ pc' = "parsed"
    /\ UNCHANGED <<monthTable, phrase, shape, bs, result, raised, path, n, ad>>
    /\ UNCHANGED scraper_vars
    /\ UNCHANGED backend_vars

\* one call convert_bs_date_string(phrase)
ConvertBsDateString ==
    /\ pc = "phrase"
    /\ LET p == parse_bs_date(phrase)
           r == convert_bs_date_string(monthTable, phrase)
       IN /\ parsed' = p
          /\ bs' = IF p = None THEN bs ELSE p[1]
          /\ path' = IF p = None THEN path ELSE bs_to_ad_path(monthTable, p[1].year)
          /\ raised' = (r.kind = "raise")
          /\ result' = IF r.kind = "raise" THEN None ELSE r.value
    /\ pc' = "done"
    /\ UNCHANGED <<monthTable, phrase, shape, n, ad>>
    /\ UNCHANGED scraper_vars
    /\ UNCHANGED backend_vars

NextParse == ParseBsDate \/ ConvertBsDateString

SpecParse == InitParse /\ [][NextParse]_vars

\* ------------------------------------------ calls of the extraction
\* The announcement texts handed to _extract_date_range and to
\* _extract_company_name; shape remembers how each was put together.

\* a date range as an announcement writes it, in one of the three forms
\*   1: <d1><s1> <m1><joint><d2><s2> <m2><comma><year>   joint a dash
\*   2: <d1><s1> <joint> <d2><s2> <m2><comma><year>       joint 'to' or '-'
\*   3: <joint> <d1><s1> <m1> to <d2><s2> <m2><comma><year>   joint 'from'
RangeText(r) ==
    IF r.form = 1
    THEN DayText(r.d1) \o r.s1 \o " " \o r.m1 \o r.joint
             \o DayText(r.d2) \o r.s2 \o " " \o r.m2 \o r.comma \o YearText(r.year)
    ELSE IF r.form = 2
    THEN DayText(r.d1) \o r.s1 \o " " \o r.joint \o " "
             \o DayText(r.d2) \o r.s2 \o " " \o r.m2 \o r.comma \o YearText(r.year)
    ELSE r.joint \o " " \o DayText(r.d1) \o r.s1 \o " " \o r.m1 \o " to "
             \o DayText(r.d2) \o r.s2 \o " " \o r.m2 \o r.comma \o YearText(r.year)

Joints(form) ==
    IF form = 1 THEN {" - ", "-", " " \o EN_DASH \o " ", EM_DASH \o " "}
    ELSE IF form = 2 THEN {"to", "TO", "-"}
    ELSE {"from", "From"}

\* the range of the days and months given; mode says which of the two days
\* carry their ordinal suffix: "both", "upper" (both, in capitals), "none",
\* "first" or "second"
Range(form, days, months, year, mode, joint, comma) ==
    LET Ordinal(d) == IF d % 100 \in 11..13 THEN "th"
                      ELSE IF d % 10 = 1 THEN "st"
                      ELSE IF d % 10 = 2 THEN "nd"
                      ELSE IF d % 10 = 3 THEN "rd"
                      ELSE "th"
        Suffix(d, alone) == IF mode \in {"both", alone} THEN Ordinal(d)
                            ELSE IF mode = "upper" THEN upper(Ordinal(d))
                            ELSE ""
    IN [form |-> form, d1 |-> days[1], d2 |-> days[2],
        m1 |-> IF form = 2 THEN months[2] ELSE months[1], m2 |-> months[2],
        year |-> year, s1 |-> Suffix(days[1], "first"), s2 |-> Suffix(days[2], "second"),
        joint |-> joint, comma |-> comma]

WrittenRanges ==
    UNION {{Range(form, days, months, 2082, mode, joint, comma)
               : days \in {<<28, 4>>, <<15, 19>>, <<1, 5>>},
                 months \in {<<"Magh", "Falgun">>, <<"Chaitra", "Chaitra">>},
                 mode \in {"both", "upper", "none", "first", "second"},
                 joint \in Joints(form), comma \in {", ", " ", ","}}
           : form \in 1..3}

\* the ranges that stand side by side in a text with two ranges
PairedRanges(days, months, year) ==
    {Range(form, days, months, year, mode,
           CHOOSE j \in Joints(form) : j \in {" - ", "to", "from"}, ", ")
        : form \in 1..3, mode \in {"both", "none"}}

InitRanges ==
    \/ \E r \in WrittenRanges, lead \in {"", "ABC Hydropower Ltd IPO opens "} :
          /\ announcement = lead \o RangeText(r)
          /\ shape = [kind |-> "ranges", ranges |-> <<r>>]
    \/ \E r1 \in PairedRanges(<<1, 5>>, <<"Magh", "Falgun">>, 2082),
          r2 \in PairedRanges(<<7, 9>>, <<"Poush", "Chaitra">>, 2083) :
          /\ announcement = RangeText(r1) \o " and " \o RangeText(r2)
          /\ shape = [kind |-> "ranges", ranges |-> <<r1, r2>>]

\* the words that mark the end of a company name for one program or the other
Markers ==
    {" - ", " " \o EN_DASH \o " ", " " \o EM_DASH \o " ", " IPO", " IPO ", " Share ",
     " - IPO ", " " \o EN_DASH \o " IPO ", " " \o EM_DASH \o " IPO ",
     " of ", " OF ", " from ", " opens ",
     " is going to issue ", " Is Going To Issue ", " is ", " has ", " WILL ", " "}

MaxWords == 8

\* texts with two markers after a head, texts of up to MaxWords words without
\* any marker, and the text of scenario 2
InitNames ==
    LET W16 == "Abcdefghijklmnop"
        W48 == W16 \o W16 \o W16
        Repeat(w, k) == [j \in 1..k |-> w]
    IN \/ \E head \in {"ABC Hydropower Ltd", "XYZ", "Nabil Bank"}, m1 \in Markers, m2 \in Markers :
             /\ announcement = head \o m1 \o "public" \o m2 \o "issue today"
             /\ shape = [kind |-> "marked", head |-> head, m1 |-> m1, m2 |-> m2]
       \/ \E a \in 0..MaxWords, w1 \in {"ab", W16}, w2 \in {W16, W48}, gap \in {" ", " \t "} :
          \E b \in 0..(MaxWords - a) :
             /\ announcement = join(Repeat(w1, a) \o Repeat(w2, b))
                                  \o gap \o (IF b > 0 THEN "x" ELSE "")
             /\ shape = [kind |-> "words",
                         words |-> Repeat(w1, a) \o Repeat(w2, b)
                                      \o (IF b > 0 THEN <<"x">> ELSE <<>>)]
       \/ /\ announcement = "ABC Hydropower Ltd IPO opens from 1st Chaitra to 5th Chaitra, 2082"
          /\ shape = [kind |-> "scenario"]

InitExtract ==
    /\ monthTable = BS_MONTH_DAYS
    /\ bs = NoDate
    /\ result = None
    /\ raised = FALSE
    /\ path = "none"
    /\ phrase = ""
    /\ parsed = None
    /\ n = 0
    /\ ad = REFERENCE_AD
    /\ \/ pc = "range" /\ file = "scraper" /\ InitRanges
       \/ pc = "name" /\ file \in Programs /\ InitNames
    /\ company = None
    /\ date_range = None
    /\ pattern = 0
    /\ outcome = "ok"
    /\ page = [announcement_list |-> TRUE, media_divs |-> <<>>]
    /\ ipos = <<>>
    /\ returned = <<>>
    /\ stdout = <<>>
    /\ IdleBackend

date_vars == <<monthTable, phrase, parsed, bs, result, raised, path, n, ad>>

\* one call _extract_date_range(announcement); the method is the same in
\* both files
ExtractDateRange ==
    /\ pc = "range"
    /\ date_range' = _extract_date_range(announcement)
    /\ pattern' = matched_pattern(announcement)
    /\ pc' = "range_done"
    /\ UNCHANGED <<shape, file, announcement, company, outcome, page, ipos, returned, stdout>>
    /\ UNCHANGED date_vars
    /\ UNCHANGED backend_vars

\* one call _extract_company_name(announcement) of the file's scraper
ExtractCompanyName ==
    /\ pc = "name"
    /\ company' = company_name_of(file, announcement)
    /\ pc' = "name_done"
    /\ UNCHANGED <<shape, file, announcement, date_range, pattern, outcome, page, ipos,
                   returned, stdout>>
    /\ UNCHANGED date_vars
    /\ UNCHANGED backend_vars

NextExtract == ExtractDateRange \/ ExtractCompanyName

SpecExtract == InitExtract /\ [][NextExtract]_vars

\* ------------------------------------------- calls of fetch_upcoming_ipos

MaxBlocks == 2

InitFetch ==
    /\ monthTable = BS_MONTH_DAYS
    /\ bs = NoDate
    /\ result = None
    /\ raised = FALSE
    /\ path = "none"
    /\ phrase = ""
    /\ parsed = None
    /\ n = 0
    /\ ad = REFERENCE_AD
    /\ shape = NoShape
    /\ pc = "fetch"
    /\ file \in Programs
    /\ outcome \in Responses
    /\ \E k \in 0..MaxBlocks :
          page \in [announcement_list : BOOLEAN, media_divs : [1..k -> MediaDivs]]
    /\ announcement = ""
    /\ company = None
    /\ date_range = None
    /\ pattern = 0
    /\ ipos = <<>>
    /\ returned = <<>>
    /\ stdout = <<>>
    /\ IdleBackend

\* one call fetch_upcoming_ipos() of the file's scraper
FetchUpcomingIpos ==
    /\ pc = "fetch"
    /\ LET ends(call) == /\ ipos' = call.ipos_bs
                         /\ returned' = call.value
                         /\ stdout' = call.out
       IN ends(fetch_upcoming_ipos(monthTable, file, outcome, page))
    /\ pc' = "fetched"
    /\ UNCHANGED <<shape, file, announcement, company, date_range, pattern, outcome, page>>
    /\ UNCHANGED date_vars
    /\ UNCHANGED backend_vars

NextFetch == FetchUpcomingIpos

SpecFetch == InitFetch /\ [][NextFetch]_vars

\* ------------------------------------------------- the table ipos (db.py)
\* A row of the table ipos is [company, start_date, end_date]; the columns
\* id, created_at and updated_at are not read by the code modelled here.
\* Each db function opens its own connection and commits before it returns.

\* the bytes of the date texts, in the order of the collation BINARY
BINARY == "-/0123456789"

RECURSIVE text_before(_, _)
\* a < b for two TEXT values
text_before(a, b) ==
    IF Len(b) = 0 THEN FALSE
    ELSE IF Len(a) = 0 THEN TRUE
    ELSE IF CharAt(a, 1) # CharAt(b, 1)
    THEN (CHOOSE i \in 1..Len(BINARY) : CharAt(BINARY, i) = CharAt(a, 1))
            < (CHOOSE i \in 1..Len(BINARY) : CharAt(BINARY, i) = CharAt(b, 1))
    ELSE text_before(SubSeq(a, 2, Len(a)), SubSeq(b, 2, Len(b)))

RECURSIVE order_by_start_date(_)
\* ORDER BY start_date ASC; rows of equal start_date stay in rowid order
order_by_start_date(rows) ==
    LET place(sorted, row) ==
            LET k == Cardinality({j \in 1..Len(sorted) :
                                     ~text_before(row.start_date, sorted[j].start_date)})
            IN SubSeq(sorted, 1, k) \o <<row>> \o SubSeq(sorted, k + 1, Len(sorted))
    IN IF Len(rows) = 0 THEN <<>>
       ELSE place(order_by_start_date(SubSeq(rows, 1, Len(rows) - 1)), rows[Len(rows)])

\* save_ipos without the rows
save_ipos_count_only(table, ipos_data) ==
    [table |-> table, count |-> Len(ipos_data)]

\* executemany of the INSERT over the records, cursor.rowcount, commit
save_ipos(table, ipos_data) ==
    [table |-> table \o [j \in 1..Len(ipos_data) |->
                            [company |-> ipos_data[j].company,
                             start_date |-> ipos_data[j].startDate,
                             end_date |-> ipos_data[j].endDate]],
     count |-> Len(ipos_data)]

\* the SELECT of get_upcoming_ipos() and the dicts made of its rows
get_upcoming_ipos(table) ==
    [j \in 1..Len(table) |->
        [company |-> order_by_start_date(table)[j].company,
         startDate |-> order_by_start_date(table)[j].start_date,
         endDate |-> order_by_start_date(table)[j].end_date]]

\* clear_all_ipos without the DELETE
clear_all_ipos_keeps(table) == table

\* DELETE FROM ipos, commit
clear_all_ipos(table) == <<>>

\* -------------------------------------------- the requests of app.py
\* update_ipos and get_upcoming_ipos are plain functions, run by the server
\* in worker threads: two requests run at the same time, and a step of one
\* is a call of a db function.  A db function that raises (the database is
\* locked, the disk is full) leaves the table as it was.

MaxEntries == 2

\* IPOEntry: company, startDate and endDate are any strings
IPOEntry(name, startDate) ==
    [company |-> name, startDate |-> startDate, endDate |-> "2026-03-20"]

Entries == {IPOEntry("Nabil Bank Limited", "2026-03-15"),
            IPOEntry("ABC Hydropower Ltd", "2026-03-14")}

\* IPOBulkUpdate.ipos
Bodies == UNION {[1..k -> Entries] : k \in 0..MaxEntries}

\* the rows a table can hold: those of earlier requests
StoredTables ==
    {save_ipos(<<>>, body).table :
        body \in UNION {[1..k -> {IPOEntry("Old Hydro", "15/03/2026"),
                                   IPOEntry("Nabil Bank Limited", "2026-03-15")}]
                           : k \in 0..MaxEntries}}

InitStore ==
    /\ pc = "serve"
    /\ monthTable = BS_MONTH_DAYS
    /\ bs = NoDate
    /\ result = None
    /\ raised = FALSE
    /\ path = "none"
    /\ Idle
    /\ IdleScraper
    /\ table_ipos \in StoredTables
    /\ ipos_before = table_ipos
    /\ requests \in [Clients -> {NoRequest}
                        \cup {[pc |-> "clear", body |-> body, response |-> None]
                                 : body \in Bodies}]
    /\ got = None
    /\ table_fcm_tokens = <<>>
    /\ last_call = [t \in Tokens |-> "none"]
    /\ token_ids = [t \in Tokens |-> {}]
    /\ today = REFERENCE_AD
    /\ initialized = FALSE
    /\ send_fails = {}
    /\ attempts = <<>>
    /\ api_url = None
    /\ api = "ok"
    /\ posted = None
    /\ backup = None
    /\ exit_value = None

\* update_ipos, line 74: db.clear_all_ipos(), or the HTTPException of line 91
UpdateIposClear(c) ==
    /\ requests[c].pc = "clear"
    /\ \E db_raises \in BOOLEAN :
          IF db_raises
          THEN /\ requests' = [requests EXCEPT ![c].pc = "done",
                                               ![c].response = Some([status_code |-> 500])]
               /\ UNCHANGED table_ipos
          ELSE /\ table_ipos' = clear_all_ipos(table_ipos)
               /\ requests' = [requests EXCEPT ![c].pc = "save"]
    /\ UNCHANGED <<pc, ipos_before, got>>
    /\ UNCHANGED <<date_vars, shape, scraper_vars, token_vars, run_vars, main_vars>>

\* update_ipos, lines 77-89: db.save_ipos(ipos_data) and the response, or the
\* HTTPException of line 91
UpdateIposSave(c) ==
    /\ requests[c].pc = "save"
    /\ \E db_raises \in BOOLEAN :
          IF db_raises
          THEN /\ requests' = [requests EXCEPT ![c].pc = "done",
                                               ![c].response = Some([status_code |-> 500])]
               /\ UNCHANGED table_ipos
          ELSE LET ends(saved) ==
                       /\ table_ipos' = saved.table
                       /\ requests' = [requests EXCEPT
                              ![c].pc = "done",
                              ![c].response = Some([status_code |-> 200,
                                                    count |-> saved.count])]
               IN ends(save_ipos(table_ipos, requests[c].body))
    /\ UNCHANGED <<pc, ipos_before, got>>
    /\ UNCHANGED <<date_vars, shape, scraper_vars, token_vars, run_vars, main_vars>>

\* GET /ipos/upcoming, once, at any moment
GetUpcomingIpos ==
    /\ pc = "serve"
    /\ got = None
    /\ got' = Some(get_upcoming_ipos(table_ipos))
    /\ UNCHANGED <<pc, table_ipos, ipos_before, requests>>
    /\ UNCHANGED <<date_vars, shape, scraper_vars, token_vars, run_vars, main_vars>>

NextStore ==
    \/ \E c \in Clients : UpdateIposClear(c)
    \/ \E c \in Clients : UpdateIposSave(c)
    \/ GetUpcomingIpos

SpecStore == InitStore /\ [][NextStore]_vars

\* ------------------------------------------- the table fcm_tokens (db.py)
\* A row of the table fcm_tokens is [id, token, active]; device_id, platform
\* and the two times are not read by the code modelled here.  No row is ever
\* deleted, so that AUTOINCREMENT gives a new row the id Len(table) + 1.

\* save_fcm_token whose UPDATE leaves active as it is
save_fcm_token_leaves_active(table, token) ==
    IF \E j \in 1..Len(table) : table[j].token = token
    THEN [table |-> table,
          token_id |-> table[CHOOSE j \in 1..Len(table) : table[j].token = token].id]
    ELSE [table |-> Append(table, [id |-> Len(table) + 1, token |-> token, active |-> 1]),
          token_id |-> Len(table) + 1]

\* SELECT id FROM fcm_tokens WHERE token = ?, then the UPDATE of the row
\* found or the INSERT of a new one; the id of the row is returned
save_fcm_token(table, token) ==
    IF \E j \in 1..Len(table) : table[j].token = token
    THEN [table |-> [j \in 1..Len(table) |->
                        IF table[j].token = token
                        THEN [table[j] EXCEPT !.active = 1]
                        ELSE table[j]],
          token_id |-> table[CHOOSE j \in 1..Len(table) : table[j].token = token].id]
    ELSE [table |-> Append(table, [id |-> Len(table) + 1, token |-> token, active |-> 1]),
          token_id |-> Len(table) + 1]

\* SELECT token FROM fcm_tokens WHERE active = 1
get_all_active_tokens(table) ==
    LET is_active(row) == row.active = 1
    IN [j \in 1..Len(SelectSeq(table, is_active)) |-> SelectSeq(table, is_active)[j].token]

\* UPDATE fcm_tokens SET active = 0 WHERE token = ?
deactivate_fcm_token(table, token) ==
    [j \in 1..Len(table) |->
        IF table[j].token = token THEN [table[j] EXCEPT !.active = 0] ELSE table[j]]

\* ------------------------------- send_daily_notifications (scheduler.py)

\* datetime.fromisoformat(date_string).date() for the texts of the model:
\* a date written YYYY-MM-DD, or a text that fromisoformat rejects with
\* ValueError
fromisoformat(date_string) ==
    IF /\ Len(date_string) = 10
       /\ \A i \in {1, 2, 3, 4, 6, 7, 9, 10} : CharAt(date_string, i) \in DigitSet
       /\ CharAt(date_string, 5) = "-" /\ CharAt(date_string, 8) = "-"
       /\ valid_ad(int(SubSeq(date_string, 1, 4)), int(SubSeq(date_string, 6, 7)),
                   int(SubSeq(date_string, 9, 10)))
    THEN Return(<<int(SubSeq(date_string, 1, 4)), int(SubSeq(date_string, 6, 7)),
                  int(SubSeq(date_string, 9, 10))>>)
    ELSE Raise

\* one call of send_ipo_opening_notification or send_ipo_reminder_notification:
\* False without Firebase, False when messaging.send raises, True otherwise
send_notification(type, token, ipo, is_initialized, fails) ==
    [type |-> type, token |-> token, ipo |-> ipo,
     success |-> is_initialized /\ token \notin fails]

\* for token in tokens: success = self.notification_service.send_...(token, ipo)
for_tokens(type, tokens, ipo, is_initialized, fails) ==
    [j \in 1..Len(tokens) |-> send_notification(type, tokens[j], ipo, is_initialized, fails)]

RECURSIVE for_ipos(_, _, _, _, _)
\* for ipo in ipos: lines 61-78; the ValueError of fromisoformat leaves the
\* loop for the except clause of line 82
for_ipos(ipo_list, tokens, now, is_initialized, fails) ==
    LET turn(ipo, start_date) ==
            IF start_date.kind = "raise" THEN <<>>
            ELSE (IF start_date.value = now
                  THEN for_tokens("ipo_opening", tokens, ipo, is_initialized, fails)
                  ELSE IF start_date.value = add_days(now, 1).value
                  THEN for_tokens("ipo_reminder", tokens, ipo, is_initialized, fails)
                  ELSE <<>>)
                 \o for_ipos(SubSeq(ipo_list, 2, Len(ipo_list)), tokens, now,
                             is_initialized, fails)
    IN IF Len(ipo_list) = 0 THEN <<>>
       ELSE turn(ipo_list[1], fromisoformat(ipo_list[1].startDate))

\* send_daily_notifications(): the calls of the send functions it makes
send_daily_notifications(fcm_tokens, ipos_rows, now, is_initialized, fails) ==
    LET run(tokens, ipo_list) ==
            IF Len(tokens) = 0 THEN <<>>
            ELSE IF Len(ipo_list) = 0 THEN <<>>
            ELSE for_ipos(ipo_list, tokens, now, is_initialized, fails)
    IN run(get_all_active_tokens(fcm_tokens), get_upcoming_ipos(ipos_rows))

\* the days the scheduler runs on
Todays == {<<2026, 3, 14>>, <<2026, 2, 28>>}

\* the rows the table ipos holds when the scheduler runs
NotifyTables ==
    {save_ipos(<<>>, body).table :
        body \in UNION {[1..k -> {IPOEntry("Nabil Bank Limited", "2026-03-15"),
                                   IPOEntry("ABC Hydropower Ltd", "2026-03-14"),
                                   IPOEntry("Sanima Bank", "2026-03-01"),
                                   IPOEntry("Old Hydro", "15/03/2026")}]
                           : k \in 0..MaxEntries}}

InitNotify ==
    /\ pc = "tokens"
    /\ monthTable = BS_MONTH_DAYS
    /\ bs = NoDate
    /\ result = None
    /\ raised = FALSE
    /\ path = "none"
    /\ Idle
    /\ IdleScraper
    /\ table_ipos \in NotifyTables
    /\ ipos_before = table_ipos
    /\ requests = [c \in Clients |-> NoRequest]
    /\ got = None
    /\ table_fcm_tokens = <<>>
    /\ last_call = [t \in Tokens |-> "none"]
    /\ token_ids = [t \in Tokens |-> {}]
    /\ today \in Todays
    /\ initialized \in BOOLEAN
    /\ send_fails \in {{}, {"t1"}}
    /\ attempts = <<>>
    /\ api_url = None
    /\ api = "ok"
    /\ posted = None
    /\ backup = None
    /\ exit_value = None

\* one call save_fcm_token(token, ...)
SaveFcmToken(token) ==
    /\ pc = "tokens"
    /\ LET ends(saved) ==
               /\ table_fcm_tokens' = saved.table
               /\ token_ids' = [token_ids EXCEPT ![token] = @ \cup {saved.token_id}]
       IN ends(save_fcm_token(table_fcm_tokens, token))
    /\ last_call' = [last_call EXCEPT ![token] = "save"]
    /\ UNCHANGED <<pc, date_vars, shape, scraper_vars, store_vars, run_vars, main_vars>>

\* one call deactivate_fcm_token(token)
DeactivateFcmToken(token) ==
    /\ pc = "tokens"
    /\ table_fcm_tokens' = deactivate_fcm_token(table_fcm_tokens, token)
    /\ last_call' = [last_call EXCEPT ![token] = "deactivate"]
    /\ UNCHANGED <<pc, token_ids>>
    /\ UNCHANGED <<date_vars, shape, scraper_vars, store_vars, run_vars, main_vars>>

\* one run of send_daily_notifications()
SendDailyNotifications ==
    /\ pc = "tokens"
    /\ attempts' = send_daily_notifications(table_fcm_tokens, table_ipos, today,
                                            initialized, send_fails)
    /\ pc' = "notified"
    /\ UNCHANGED <<today, initialized, send_fails>>
    /\ UNCHANGED <<date_vars, shape, scraper_vars, store_vars, token_vars, main_vars>>

NextNotify ==
    \/ \E token \in Tokens : SaveFcmToken(token)
    \/ \E token \in Tokens : DeactivateFcmToken(token)
    \/ SendDailyNotifications

SpecNotify == InitNotify /\ [][NextNotify]_vars

\* ------------------------------------------- main (scraper_standalone.py)

\* how requests.post and raise_for_status end in send_to_api: well, or with
\* a requests.RequestException
ApiResponses == {"ok", "RequestException"}

\* send_to_api(ipos, api_url): True, or False from the except clause
send_to_api(api_response) == api_response = "ok"

\* main where a failed send_to_api is not followed by save_to_file
main_no_backup(T, environ_api_url, response, soup, api_response) ==
    LET scraped(call) ==
            IF Len(call.value) = 0
            THEN [value |-> FALSE, scraper |-> call, posted |-> None, backup |-> None]
            ELSE IF truthy(environ_api_url)
            THEN [value |-> send_to_api(api_response), scraper |-> call,
                  posted |-> Some(call.value), backup |-> None]
            ELSE [value |-> TRUE, scraper |-> call,
                  posted |-> None, backup |-> Some(call.value)]
    IN scraped(fetch_upcoming_ipos(T, "scraper_standalone", response, soup))

\* main(): the value returned, the call of fetch_upcoming_ipos, the records
\* given to requests.post and the records written by save_to_file
main(T, environ_api_url, response, soup, api_response) ==
    LET scraped(call) ==
            IF Len(call.value) = 0
            THEN [value |-> FALSE, scraper |-> call, posted |-> None, backup |-> None]
            ELSE IF truthy(environ_api_url)
            THEN [value |-> send_to_api(api_response), scraper |-> call,
                  posted |-> Some(call.value),
                  backup |-> IF send_to_api(api_response) THEN None ELSE Some(call.value)]
            ELSE [value |-> TRUE, scraper |-> call,
                  posted |-> None, backup |-> Some(call.value)]
    IN scraped(fetch_upcoming_ipos(T, "scraper_standalone", response, soup))

InitMain ==
    /\ pc = "main"
    /\ monthTable = BS_MONTH_DAYS
    /\ bs = NoDate
    /\ result = None
    /\ raised = FALSE
    /\ path = "none"
    /\ Idle
    /\ file = "scraper_standalone"
    /\ outcome \in Responses
    /\ \E k \in 0..MaxBlocks :
          page \in [announcement_list : BOOLEAN, media_divs : [1..k -> MediaDivs]]
    /\ announcement = ""
    /\ company = None
    /\ date_range = None
    /\ pattern = 0
    /\ ipos = <<>>
    /\ returned = <<>>
    /\ stdout = <<>>
    /\ table_ipos = <<>>
    /\ ipos_before = <<>>
    /\ requests = [c \in Clients |-> NoRequest]
    /\ got = None
    /\ table_fcm_tokens = <<>>
    /\ last_call = [t \in Tokens |-> "none"]
    /\ token_ids = [t \in Tokens |-> {}]
    /\ today = REFERENCE_AD
    /\ initialized = FALSE
    /\ send_fails = {}
    /\ attempts = <<>>
    /\ api_url \in {None, Some(""), Some("https://backend/ipos/update")}
    /\ api \in ApiResponses
    /\ posted = None
    /\ backup = None
    /\ exit_value = None

\* one run of main(); of the lines logged, those of the scraper are kept
Main ==
    /\ pc = "main"
    /\ LET ends(run) == /\ ipos' = run.scraper.ipos_bs
                        /\ returned' = run.scraper.value
                        /\ stdout' = run.scraper.out
                        /\ posted' = run.posted
                        /\ backup' = run.backup
                        /\ exit_value' = Some(run.value)
       IN ends(main(monthTable, api_url, outcome, page, api))
    /\ pc' = "exited"
    /\ UNCHANGED <<shape, file, announcement, company, date_range, pattern, outcome, page,
                   api_url, api>>
    /\ UNCHANGED <<date_vars, store_vars, token_vars, run_vars>>

NextMain == Main

SpecMain == InitMain /\ [][NextMain]_vars

\* ------------------------------------------------- reading the results

\* s is YYYY-MM-DD and names a day of the Gregorian calendar
IsIsoDate(s) ==
    /\ Len(s) = 10
    /\ \A i \in {1, 2, 3, 4, 6, 7, 9, 10} : SubSeq(s, i, i) \in DigitSet
    /\ SubSeq(s, 5, 5) = "-" /\ SubSeq(s, 8, 8) = "-"
    /\ valid_ad(int(SubSeq(s, 1, 4)), int(SubSeq(s, 6, 7)), int(SubSeq(s, 9, 10)))

\* the place of an ISO date in the order of days
IsoOrd(s) == int(SubSeq(s, 1, 4)) * 10000 + int(SubSeq(s, 6, 7)) * 100 + int(SubSeq(s, 9, 10))

\* the BS dates of the tabulated years that the month table holds
InTable(d) ==
    /\ d.year \in DOMAIN BS_MONTH_DAYS
    /\ d.month >= 1 /\ d.month <= 12
    /\ d.day >= 1 /\ d.day <= BS_MONTH_DAYS[d.year][d.month]

TableDates == {d \in [year : TableYears, month : 1..12, day : 1..32] : InTable(d)}

\* a before b in the BS calendar: by year, then month, then day
Before(a, b) ==
    \/ a.year < b.year
    \/ a.year = b.year /\ a.month < b.month
    \/ a.year = b.year /\ a.month = b.month /\ a.day < b.day

\* every tabulated date with what bs_to_ad returns for it
ExactResults ==
    {[date |-> d, value |-> bs_to_ad(BS_MONTH_DAYS, d.year, d.month, d.day).value]
        : d \in TableDates}

ExactOrds ==
    {[date |-> e.date, ord |-> IF e.value = None THEN 0 ELSE IsoOrd(e.value[1])]
        : e \in ExactResults}

ExactStrings == {e.value[1] : e \in {x \in ExactResults : x.value # None}}

\* ------------------------------------------------------------ the claims

\* C1: for a tabulated year and any integers month and day, bs_to_ad returns
\* an ISO date exactly when 1 <= month <= 12 and 1 <= day <=
\* BS_MONTH_DAYS[year][month-1], and None otherwise.
C1_TabulatedValidIffConverted ==
    (pc = "done" /\ bs.year \in TableYears) =>
        /\ ~raised
        /\ (result # None) <=> InTable(bs)
        /\ result # None => IsIsoDate(result[1])

C1_Witness ==
    /\ pc = "done"
    /\ bs = [year |-> 2082, month |-> 2, day |-> 32]
    /\ result # None

\* C2: on every valid date of the tabulated years the offset bs_to_ad adds to
\* the anchor is the number of calendar days walked from the anchor, so the
\* result is the Gregorian day reached by walking as many days from
\* 2023-04-14 (a new BS year starts on the AD day after the old one's last).
C2_OffsetIsDaysWalked ==
    pc = "converted" =>
        /\ _calculate_days_from_reference(monthTable, bs.year, bs.month, bs.day) = n
        /\ ~raised
        /\ result = Some(strftime(ad))

\* C3: the anchor BS date 2080-01-01 converts to the anchor AD date
\* 2023-04-14, with offset 0.
C3_AnchorIdentity ==
    (pc = "done" /\ bs = REFERENCE_BS) =>
        /\ result = Some("2023-04-14")
        /\ _calculate_days_from_reference(monthTable, bs.year, bs.month, bs.day) = 0

C3_Witness ==
    /\ pc = "done"
    /\ bs = [year |-> 2080, month |-> 1, day |-> 1]
    /\ path = "exact"
    /\ result # None

\* C4: a valid tabulated BS date converts to a strictly earlier AD date than
\* every valid tabulated BS date that follows it.
C4_StrictlyMonotonic ==
    (pc = "done" /\ InTable(bs)) =>
        /\ result # None
        /\ \A e \in ExactOrds :
              Before(bs, e.date) => IsoOrd(result[1]) < e.ord

C4_Witness ==
    /\ pc = "done"
    /\ bs = [year |-> 2082, month |-> 12, day |-> 30]
    /\ result # None
    /\ \E e \in ExactOrds : Before(bs, e.date)

\* C5: every entry of the month table is 12 positive integers that sum to
\* 365 or 366, the anchor's year is tabulated, and the table is never changed.
C5_MonthTableWellFormed ==
    /\ monthTable = BS_MONTH_DAYS
    /\ REFERENCE_BS.year \in DOMAIN monthTable
    /\ \A y \in DOMAIN monthTable :
          /\ Len(monthTable[y]) = 12
          /\ \A m \in 1..12 : monthTable[y][m] \in Nat \ {0}
          /\ SumSeq(monthTable[y], 1, 13) \in {365, 366}

C5_Witness ==
    /\ pc = "done"
    /\ result # None
    /\ DOMAIN monthTable = 2080..2086

\* the year, month and day an ISO date string names
IsoParts(s) == <<int(SubSeq(s, 1, 4)), int(SubSeq(s, 6, 7)), int(SubSeq(s, 9, 10))>>

\* the AD year and month the approximation is said to give
ApproxYear(d) == IF d.month >= 10 THEN d.year - 56 ELSE d.year - 57
ApproxMonth(d) == IF d.month >= 10 THEN d.month - 9 ELSE d.month + 3

\* C6 as stated: for an untabulated year and a month in 1..12, bs_to_ad
\* returns the date with AD year = BS year - 57 and AD month = BS month + 3
\* (BS months 1..9), AD year = BS year - 56 and AD month = BS month - 9 (BS
\* months 10..12), AD day = min(BS day, 28), always a valid calendar date.
C6_ApproximationAsStated ==
    (pc = "done" /\ bs.year \notin TableYears /\ bs.month \in 1..12) =>
        /\ result # None
        /\ IsIsoDate(result[1])
        /\ IsoParts(result[1]) = <<ApproxYear(bs), ApproxMonth(bs), Min(bs.day, 28)>>

\* C6 amended: for an untabulated year and a month in 1..12, when the AD
\* year (BS year - 57 for months 1..9, BS year - 56 for months 10..12) lies in
\* 1..9999 bs_to_ad returns the valid calendar date of that AD year, AD month
\* = BS month + 3 resp. BS month - 9, and AD day = min(BS day, 28) for a BS day
\* of at least 1 and AD day = 1 for a BS day below 1; when the AD year lies
\* outside 1..9999 it returns None.
C6_ApproximationAmended ==
    (pc = "done" /\ bs.year \notin TableYears /\ bs.month \in 1..12) =>
        /\ ~raised
        /\ IF ApproxYear(bs) >= 1 /\ ApproxYear(bs) <= 9999
           THEN /\ result # None
                /\ IsIsoDate(result[1])
                /\ IsoParts(result[1]) =
                       <<ApproxYear(bs), ApproxMonth(bs),
                         IF bs.day >= 1 THEN Min(bs.day, 28) ELSE 1>>
           ELSE result = None

C6_Witness ==
    /\ pc = "done"
    /\ bs = [year |-> 2070, month |-> 11, day |-> 31]
    /\ path = "approx"
    /\ result = Some("2014-02-28")

\* C7: a result of the approximation path can be told, from the value
\* bs_to_ad returns, from the result of an exact conversion: no approximate
\* result (of a BS date with a month in 1..12 and a day in 1..32) is a value
\* that an exact conversion returns.
C7_ApproximateDistinguishable ==
    (pc = "done" /\ path = "approx" /\ result # None
        /\ bs.month \in 1..12 /\ bs.day \in 1..32) =>
        result[1] \notin ExactStrings

\* C8: for every integer triple bs_to_ad ends with an ISO date string or
\* None and no exception leaves it; for an untabulated year whose remapped
\* AD month falls outside 1..12 it ends with None.
C8_NeverRaises ==
    pc = "done" =>
        /\ ~raised
        /\ result = None \/ IsIsoDate(result[1])
        /\ (bs.year \notin TableYears /\ ApproxMonth(bs) \notin 1..12) => result = None

C8_Witness ==
    /\ pc = "done"
    /\ bs = [year |-> 2070, month |-> 22, day |-> 1]
    /\ path = "approx"
    /\ ~raised
    /\ result = None

\* C9: a phrase written as <day><suffix> <month-name><sep><year>, with a day
\* of one or two digits, the suffix absent or st/nd/rd/th in any letter case,
\* a month name of the alias table in any letter case, a space or a comma as
\* separator and a four-digit year, parses to that year, the alias's month
\* number and that day; '28th Magh 2081' and '28 Magh 2081' give {2081, 10, 28}.
C9_WrittenPhraseParses ==
    pc \in {"parsed", "done"} =>
        /\ shape.kind = "written" =>
              parsed = Some([year |-> shape.year,
                             month |-> BS_MONTHS[shape.name],
                             day |-> shape.day])
        /\ phrase \in {"28th Magh 2081", "28 Magh 2081"} =>
              parsed = Some([year |-> 2081, month |-> 10, day |-> 28])

C9_Witness ==
    /\ pc = "parsed"
    /\ phrase = "28th Magh 2081"
    /\ shape.kind = "written"
    /\ parsed = Some([year |-> 2081, month |-> 10, day |-> 28])

\* the places where a string reads as day, optional suffix, spaces, a word, a
\* run of commas and spaces, and four digits: the start, the day, the word
\* and the year of each
DatePhrases(s) ==
    LET cs == Chars(s)
        L == Len(s)
    IN UNION {UNION {UNION {UNION {UNION {
           {[start |-> p0,
             day |-> SubSeq(s, p0, p1 - 1),
             word |-> SubSeq(s, p3, p4 - 1),
             year |-> SubSeq(s, p5, p5 + 3)]
               : p5 \in {x \in (p4 + 1)..(L - 3) :
                           /\ \A j \in p4..(x - 1) : cs[j] \in SepSet
                           /\ \A j \in x..(x + 3) : cs[j] \in DigitSet}}
           : p4 \in {x \in (p3 + 1)..L : \A j \in p3..(x - 1) : cs[j] \in WordSet}}
           : p3 \in {x \in (p2 + 1)..L : \A j \in p2..(x - 1) : cs[j] \in SpaceSet}}
           : p2 \in {x \in {p1, p1 + 2} :
                       \/ x = p1
                       \/ x <= L + 1 /\ lower(SubSeq(s, p1, p1 + 1)) \in OrdinalSuffixes}}
           : p1 \in {x \in {p0 + 1, p0 + 2} :
                       x <= L + 1 /\ \A j \in p0..(x - 1) : cs[j] \in DigitSet}}
           : p0 \in 1..L}

FirstDatePhrases(s) ==
    {x \in DatePhrases(s) : \A y \in DatePhrases(s) : x.start <= y.start}

\* C10: parse_bs_date returns None exactly when the phrase holds no
\* day/month/year shape or the month word of its (first) shape is not in the
\* alias table; the day never decides, so '32 Magh 2081' parses to
\* {2081, 10, 32} and it is bs_to_ad that rejects it.
C10_NoneIffNoShapeOrMonth ==
    pc \in {"parsed", "done"} =>
        /\ (parsed = None) <=>
              \A x \in FirstDatePhrases(phrase) : lower(x.word) \notin DOMAIN BS_MONTHS
        /\ parsed # None =>
              \E x \in FirstDatePhrases(phrase) :
                 /\ lower(x.word) \in DOMAIN BS_MONTHS
                 /\ parsed[1] = [year |-> int(x.year),
                                 month |-> BS_MONTHS[lower(x.word)],
                                 day |-> int(x.day)]
        /\ (pc = "done" /\ phrase = "32 Magh 2081") =>
              /\ parsed = Some([year |-> 2081, month |-> 10, day |-> 32])
              /\ result = None

C10_Witness ==
    /\ pc = "done"
    /\ phrase = "32 Magh 2081"
    /\ parsed # None
    /\ parsed[1].day = 32
    /\ path = "exact"
    /\ result = None

\* the canonical rendering of a BS date: <day> <month-name> <year>
format(day, name, year) == DayText(day) \o " " \o name \o " " \o YearText(year)

\* C11: round trip.  For every date of the month table and every alias of its
\* month, parse_bs_date of the canonical phrase '<day> <alias> <year>' gives
\* back exactly that year, month and day.
C11_RoundTrip ==
    (/\ pc \in {"parsed", "done"}
     /\ shape.kind = "written"
     /\ InTable([year |-> shape.year, month |-> BS_MONTHS[shape.name], day |-> shape.day])
     /\ phrase = format(shape.day, shape.name, shape.year))
        => /\ parsed # None
           /\ parsed[1].year = shape.year
           /\ parsed[1].month = BS_MONTHS[shape.name]
           /\ parsed[1].day = shape.day
           /\ format(parsed[1].day, shape.name, parsed[1].year) = phrase

C11_Witness ==
    /\ pc = "parsed"
    /\ phrase = "32 asar 2084"
    /\ shape = [kind |-> "written", year |-> 2084, name |-> "asar", day |-> 32]
    /\ parsed = Some([year |-> 2084, month |-> 3, day |-> 32])

\* the two phrases a written range spells
RangePhrases(r) ==
    [start |-> DayText(r.d1) \o " " \o r.m1 \o " " \o YearText(r.year),
     end |-> DayText(r.d2) \o " " \o r.m2 \o " " \o YearText(r.year)]

\* both days of the written range carry an ordinal suffix
Suffixed(r) == r.s1 # "" /\ r.s2 # ""

\* of the written ranges rs[j], j in live, those of the form whose pattern
\* comes first and, among these, the one that stands first in the text
Chosen(rs, live) ==
    {j \in live : \A h \in live :
        \/ rs[j].form < rs[h].form
        \/ rs[j].form = rs[h].form /\ j <= h}

\* s reads <day> <month> <year>: one or two digits, a word, four digits,
\* with single spaces between
IsDatePhrase(s) ==
    LET w == split(s)
    IN /\ Len(w) = 3
       /\ s = w[1] \o " " \o w[2] \o " " \o w[3]
       /\ Len(w[1]) \in {1, 2} /\ \A j \in 1..Len(w[1]) : CharAt(w[1], j) \in DigitSet
       /\ \A j \in 1..Len(w[2]) : CharAt(w[2], j) \in WordSet
       /\ Len(w[3]) = 4 /\ \A j \in 1..4 : CharAt(w[3], j) \in DigitSet

\* C12: _extract_date_range tries pattern 1 ('d month - d month, year'), then
\* pattern 2 ('d to|- d month, year'), then pattern 3 ('from d month to d
\* month, year') and returns what the first pattern that matches somewhere in
\* the text gives: of the ranges a text holds it returns the one of the
\* lowest form, wherever it stands.  The result is two phrases
\* '<day> <month> <year>' with one year and, for pattern 2, one month.
C12_PatternsInOrder ==
    pc = "range_done" =>
        /\ (date_range = None) <=> (pattern = 0)
        /\ date_range # None =>
              /\ IsDatePhrase(date_range[1].start)
              /\ IsDatePhrase(date_range[1].end)
              /\ split(date_range[1].start)[3] = split(date_range[1].end)[3]
              /\ pattern = 2 => split(date_range[1].start)[2] = split(date_range[1].end)[2]
        /\ (/\ shape.kind = "ranges"
            /\ \A j \in DOMAIN shape.ranges : Suffixed(shape.ranges[j]))
              => \E j \in Chosen(shape.ranges, DOMAIN shape.ranges) :
                    /\ pattern = shape.ranges[j].form
                    /\ date_range = Some(RangePhrases(shape.ranges[j]))

C12_Witness ==
    /\ pc = "range_done"
    /\ announcement = "1st to 5th Falgun, 2082 and 7th Poush - 9th Chaitra, 2083"
    /\ pattern = 1
    /\ date_range = Some([start |-> "7 Poush 2083", end |-> "9 Chaitra 2083"])

\* C13: the ordinal suffix on the days of a range is optional: a range
\* written without suffixes ('28 Magh - 4 Falgun, 2082', '15 to 19 Falgun,
\* 2082') is matched and gives the same two phrases as the range written
\* with st/nd/rd/th.
C13_SuffixOptional ==
    (/\ pc = "range_done"
     /\ shape.kind = "ranges"
     /\ Len(shape.ranges) = 1)
        => /\ pattern = shape.ranges[1].form
           /\ date_range = Some(RangePhrases(shape.ranges[1]))

\* ---- the pipeline

\* the announcement of scenario 2
Scenario2 ==
    [media_body |-> TRUE, link |-> TRUE,
     text |-> "ABC Hydropower Ltd IPO opens from 1st Chaitra to 5th Chaitra, 2082"]

\* the AD dates of a record of the file's scraper
StartAD(ipo) == IF file = "scraper" THEN ipo.startDateAD ELSE ipo.startDate
EndAD(ipo) == IF file = "scraper" THEN ipo.endDateAD ELSE ipo.endDate

\* C14: for the text 'ABC Hydropower Ltd IPO opens from 1st Chaitra to 5th
\* Chaitra, 2082' the extraction gives the company 'ABC Hydropower Ltd', the
\* start phrase '1 Chaitra 2082' and the end phrase '5 Chaitra 2082'; both
\* phrases parse (to 2082/12/1 and 2082/12/5), 2082 is a tabulated year so
\* that both convert on the exact path, and one record is emitted, with the
\* AD dates 2026-03-15 and 2026-03-19.
C14_Scenario2 ==
    (pc = "fetched" /\ outcome = "ok" /\ page.media_divs = <<Scenario2>>)
        => /\ Len(ipos) = 1
           /\ ipos[1].company = "ABC Hydropower Ltd"
           /\ ipos[1].startDateBS = "1 Chaitra 2082"
           /\ ipos[1].endDateBS = "5 Chaitra 2082"
           /\ parse_bs_date(ipos[1].startDateBS) = Some([year |-> 2082, month |-> 12, day |-> 1])
           /\ parse_bs_date(ipos[1].endDateBS) = Some([year |-> 2082, month |-> 12, day |-> 5])
           /\ bs_to_ad_path(monthTable, 2082) = "exact"
           /\ Len(returned) = 1
           /\ returned[1].company = "ABC Hydropower Ltd"
           /\ StartAD(returned[1]) = "2026-03-15"
           /\ EndAD(returned[1]) = "2026-03-19"
           /\ {StartAD(returned[1]), EndAD(returned[1])} \subseteq ExactStrings

C14_Witness ==
    /\ pc = "fetched"
    /\ file = "scraper_standalone"
    /\ page = [announcement_list |-> TRUE, media_divs |-> <<Scenario2>>]
    /\ returned = <<[company |-> "ABC Hydropower Ltd",
                     startDate |-> "2026-03-15", endDate |-> "2026-03-19"]>>

\* what each stage gives for a media div: its text (None without a
\* media-body or a link), whether the text holds 'ipo' or 'share' in any
\* letter case, the company name, the date range, and the conversions of the
\* two phrases of the range
Stages ==
    [program \in Programs |->
        [media_div \in MediaDivs |->
            LET text == get_text(media_div.text)
                range == _extract_date_range(text)
            IN [text |-> IF media_div.media_body /\ media_div.link THEN Some(text) ELSE None,
                keyword |-> contains(lower(text), "ipo") \/ contains(lower(text), "share"),
                company |-> company_name_of(program, text),
                range |-> range,
                start |-> IF range = None THEN None
                          ELSE convert_bs_date_string(BS_MONTH_DAYS, range[1].start).value,
                end |-> IF range = None THEN None
                        ELSE convert_bs_date_string(BS_MONTH_DAYS, range[1].end).value]]]

\* company extraction and date-range extraction both succeed and both
\* phrases parse and convert
AllStages(s) ==
    /\ s.text # None
    /\ s.company # None /\ s.company[1] # ""
    /\ s.range # None
    /\ s.start # None /\ s.end # None

\* the record of a media div whose stages all succeed
RecordOf(program, s) ==
    IF program = "scraper"
    THEN [company |-> s.company[1],
          startDateBS |-> s.range[1].start, endDateBS |-> s.range[1].end,
          startDateAD |-> s.start[1], endDateAD |-> s.end[1],
          rawText |-> s.text[1]]
    ELSE [company |-> s.company[1], startDate |-> s.start[1], endDate |-> s.end[1]]

\* the records returned are those of the media divs that Emits holds of, one
\* for each
RecordIff(Emits(_)) ==
    (pc = "fetched" /\ outcome = "ok")
        => LET stage(i) == Stages[file][page.media_divs[i]]
               emitting == {i \in DOMAIN page.media_divs : Emits(stage(i))}
           IN /\ Len(returned) = Cardinality(emitting)
              /\ \A i \in emitting : \E j \in DOMAIN returned : returned[j] = RecordOf(file, stage(i))
              /\ \A j \in DOMAIN returned : \E i \in emitting : returned[j] = RecordOf(file, stage(i))

\* C15 as stated: a record is emitted for a block if and only if company
\* extraction and date-range extraction both succeed and both date phrases
\* parse and convert; the AD dates of a record are the conversions of the
\* phrases of its own block.
C15_RecordIffAllStages == RecordIff(AllStages)

LooksLikeIpo(s) == s.keyword /\ AllStages(s)

\* C15 amended: a record is emitted for a block if and only if the text of
\* the block holds 'ipo' or 'share' in any letter case, company extraction
\* and date-range extraction both succeed and both date phrases parse and
\* convert; the AD dates of a record are the conversions of the phrases of
\* its own block.
C15_RecordIffKeywordAndAllStages == RecordIff(LooksLikeIpo)

C15_Witness ==
    /\ pc = "fetched"
    /\ file = "scraper"
    /\ outcome = "ok"
    /\ Len(page.media_divs) = 2
    /\ page.media_divs[1].text = "Nabil Bank opens from 1st Magh to 5th Magh, 2082"
    /\ page.media_divs[2].text = "Sanima Bank IPO 30th Chaitra - 32nd Chaitra, 2082"
    /\ AllStages(Stages[file][page.media_divs[1]])
    /\ Stages[file][page.media_divs[2]].start = Some("2026-04-13")
    /\ Stages[file][page.media_divs[2]].end = None
    /\ returned = <<>>

\* what fetch_upcoming_ipos returns for a page that holds media_div alone
Alone ==
    [program \in Programs |->
        [media_div \in MediaDivs |->
            fetch_upcoming_ipos(BS_MONTH_DAYS, program, "ok",
                                [announcement_list |-> TRUE,
                                 media_divs |-> <<media_div>>]).value]]

\* C16: the records returned are a subsequence of the blocks in their order:
\* record j comes from block f[j] with f strictly increasing, a block gives at
\* most one record, and every block that gives a record alone has its record
\* in the output, two blocks with equal records included.
C16_SubsequenceInOrder ==
    pc = "fetched"
        => /\ \A i \in DOMAIN page.media_divs : Len(Alone[file][page.media_divs[i]]) <= 1
           /\ \E f \in [DOMAIN returned -> DOMAIN page.media_divs] :
                 /\ \A j, k \in DOMAIN returned : j < k => f[j] < f[k]
                 /\ \A j \in DOMAIN returned : Alone[file][page.media_divs[f[j]]] = <<returned[j]>>
           /\ outcome = "ok"
                 => Len(returned) = Cardinality({i \in DOMAIN page.media_divs :
                                                    Alone[file][page.media_divs[i]] # <<>>})

C16_Witness ==
    /\ pc = "fetched"
    /\ file = "scraper"
    /\ page.media_divs = <<Scenario2, Scenario2>>
    /\ Len(returned) = 2
    /\ returned[1] = returned[2]
    /\ returned[1].rawText = Scenario2.text

RECURSIVE Outputs(_, _)
\* the outputs of the blocks run alone, one after the other
Outputs(program, media_divs) ==
    IF Len(media_divs) = 0 THEN <<>>
    ELSE Alone[program][media_divs[1]] \o Outputs(program, Tail(media_divs))

\* C17: the output for a list of blocks is the concatenation of the outputs of
\* the blocks run alone, so that a block that fails takes no record of
\* another block away; and the call always ends with a sequence, the empty
\* one when the request or the parse of the page fails.
C17_BlocksAreIndependent ==
    pc = "fetched"
        => /\ outcome = "ok" => returned = Outputs(file, page.media_divs)
           /\ outcome # "ok" => returned = <<>>
           /\ DOMAIN returned = 1..Len(returned)

C17_Witness ==
    /\ pc = "fetched"
    /\ file = "scraper_standalone"
    /\ outcome = "ok"
    /\ Len(page.media_divs) = 2
    /\ page.media_divs[1].text = "ABC Hydropower Ltd IPO opens soon"
    /\ page.media_divs[2] = Scenario2
    /\ returned = <<[company |-> "ABC Hydropower Ltd",
                     startDate |-> "2026-03-15", endDate |-> "2026-03-19"]>>

\* a line that is more than the note that the announcement is being read
IsDiagnostic(line) ==
    SubSeq(line, 1, Len("Processing announcement: ")) # "Processing announcement: "

\* C18: every block with a text that the pipeline skips has a diagnostic
\* about it among the lines printed; a block whose text holds no date range is
\* one of them.
C18_SkippedBlockHasDiagnostic ==
    (pc = "fetched" /\ outcome = "ok")
        => \A i \in DOMAIN page.media_divs :
              LET media_div == page.media_divs[i]
              IN (media_div.media_body /\ media_div.link /\ Alone[file][media_div] = <<>>)
                    => \E k \in DOMAIN stdout :
                          /\ stdout[k].about = get_text(media_div.text)
                          /\ IsDiagnostic(stdout[k].line)

\* ---- the company name

\* the candidate of each separator of seps in turn: the text before the
\* separator, stripped, when it is longer than 3 characters and, if capped,
\* shorter than 100
BySeparator(text, seps, capped) ==
    [k \in DOMAIN seps |->
        LET part == strip(split_first(text, seps[k]))
        IN IF contains(text, seps[k]) /\ Len(part) > 3 /\ (capped => Len(part) < 100)
           THEN Some(part) ELSE None]

\* the candidate of each connective keyword in turn: the keyword is looked
\* for in the text in lower case, the text is cut at the keyword as written
ByKeyword(text, capped) ==
    [k \in DOMAIN keywords |->
        LET part == strip(split_first(text, keywords[k]))
        IN IF contains(lower(text), keywords[k]) /\ Len(part) > 3 /\ (capped => Len(part) < 100)
           THEN Some(part) ELSE None]

\* the candidate of the first words: the longest of the prefixes of 3 to most
\* words that, if capped, is shorter than 100 characters
FirstWords(text, most, capped) ==
    LET words == split(text)
        counts == {c \in 3..Min(most, Len(words)) :
                      capped => Len(join(take(words, c))) < 100}
    IN IF counts = {} THEN None ELSE Some(join(take(words, MaxOf(counts))))

\* the candidate before a verb phrase: the shortest text before one of the
\* verbs, stripped; if checked, longer than 3 and shorter than 100 characters
BeforeVerb(text, verbs, spaced, checked) ==
    LET parts == {strip(g) : g \in prefix_search(text, verbs, spaced)}
    IN Optional({c \in parts : checked => (Len(c) > 3 /\ Len(c) < 100)})

\* the heuristics of each program in the order of its code
Heuristics(program, text) ==
    IF program = "scraper"
    THEN BySeparator(text, separators, FALSE) \o ByKeyword(text, FALSE)
             \o <<FirstWords(text, 5, FALSE)>>
    ELSE <<BeforeVerb(text, {"is going to issue"}, FALSE, FALSE)>>
             \o BySeparator(text, standalone_separators, TRUE) \o ByKeyword(text, TRUE)
             \o <<BeforeVerb(text, {"is", "has", "will"}, TRUE, TRUE)>>
             \o <<FirstWords(text, 7, TRUE)>>

\* the candidate of the first heuristic that applies
FirstThatApplies(candidates) ==
    IF \A k \in DOMAIN candidates : candidates[k] = None THEN None
    ELSE candidates[MinOf({k \in DOMAIN candidates : candidates[k] # None})]

LegalEntityKeywords ==
    {"Ltd", "Limited", "Bank", "Finance", "Insurance", "Power", "Hydro",
     "Development", "Company"}

\* the prefix of the text that ends at its first legal-entity keyword
LegalEntityPrefix(text) ==
    LET words == split(text)
        at == {k \in DOMAIN words : words[k] \in LegalEntityKeywords}
    IN IF at = {} THEN None ELSE Some(join(take(words, MinOf(at))))

C20_LongestPrefixOfThreeToSeven ==
    (pc = "name_done" /\ shape.kind = "words")
        => company = FirstWords(announcement, 7, TRUE)

\* ---- the converter over all years

\* the place of a BS date in the order of the BS calendar
BsKey(d) == d.year * 10000 + d.month * 100 + d.day

\* every BS date of the years of the model, with a month in 1..12 and a day
\* within the month (the tabulated length, 32 for a year without a table),
\* that bs_to_ad converts: its place in the BS calendar, whether its year is
\* tabulated, and the place of the AD date returned
ConvertedOrds ==
    {[key |-> e.key, exact |-> e.exact, ord |-> IsoOrd(e.value[1])]
        : e \in {x \in {[key |-> BsKey(d),
                         exact |-> d.year \in TableYears,
                         value |-> bs_to_ad(BS_MONTH_DAYS, d.year, d.month, d.day).value]
                           : d \in {c \in [year : Years, month : 1..12, day : 1..32] :
                                       c.year \in TableYears => InTable(c)}}
                      : x.value # None}}

\* the date converted in this state is one of ConvertedOrds
Converted == 
    /\ pc = "done"
    /\ BsKey(bs) \in {e.key : e \in ConvertedOrds}
    /\ bs.month \in 1..12 /\ bs.day \in 1..32

\* no date after the one of this state, but for those that Skip holds of,
\* converts to an earlier AD date
NotLaterThanFollowing(Skip(_)) ==
    LET following(key, ord) ==
            \A e \in ConvertedOrds : (key < e.key /\ ~Skip(e)) => ord <= e.ord
    IN Converted => following(BsKey(bs), IsoOrd(result[1]))

NoDateSkipped(e) == FALSE

\* C23 as stated: for any two BS dates a before b, with a valid month and a
\* day within the month, that both convert, bs_to_ad(a) is not later than
\* bs_to_ad(b), in tabulated years and outside them, and when one is converted
\* by the exact path and the other by the approximation.
C23_MonotonicEverywhere == NotLaterThanFollowing(NoDateSkipped)

\* the last eleven days of the last tabulated year, converted by the exact
\* path, before the first eleven days of the year after it, approximated
AcrossTheEndOfTheTable(e) ==
    /\ bs.year = 2086 /\ bs.month = 12 /\ bs.day >= 20
    /\ ~e.exact /\ e.key >= 20870101 /\ e.key <= 20870111

\* C23 amended: for any two BS dates a before b, with a valid month and a day
\* within the month, that both convert, bs_to_ad(a) is not later than
\* bs_to_ad(b), unless a is one of 2086-12-20 ... 2086-12-30, the last days
\* of the month table, and b one of 2087-01-01 ... 2087-01-11, where the
\* approximation steps back to 2030-04-01.
C23_MonotonicButPastTheTable == NotLaterThanFollowing(AcrossTheEndOfTheTable)

C23_Witness ==
    /\ pc = "done"
    /\ bs = [year |-> 2079, month |-> 12, day |-> 30]
    /\ path = "approx"
    /\ result = Some("2023-03-28")
    /\ \E e \in ConvertedOrds :
          e.exact /\ e.key = 20800101 /\ e.ord = IsoOrd("2023-04-14")

\* line 104: the test that sends _calculate_days_from_reference backwards
Backwards(d) ==
    d.year < REFERENCE_BS.year \/ (d.year = REFERENCE_BS.year /\ d.month < REFERENCE_BS.month)

\* the call passes the tests of lines 79-86 and reaches line 88
ReachesOffset(T, d) ==
    /\ d.year \in DOMAIN T
    /\ d.month >= 1 /\ d.month <= 12
    /\ d.day >= 1 /\ d.day <= T[d.year][d.month]

\* C25: no call of bs_to_ad reaches _calculate_days_backwards: a call that
\* computes an offset is not sent backwards and its offset is not negative,
\* and every BS date before the anchor 2080-01-01 has an untabulated year and
\* takes the approximation path.
C25_BackwardsNeverRuns ==
    pc = "done" =>
        /\ ReachesOffset(monthTable, bs)
              => /\ ~Backwards(bs)
                 /\ _calculate_days_from_reference(monthTable, bs.year, bs.month, bs.day) >= 0
        /\ (bs.month \in 1..12 /\ bs.day >= 1 /\ BsKey(bs) < BsKey(REFERENCE_BS))
              => (bs.year \notin DOMAIN monthTable /\ path = "approx")

C25_Witness ==
    /\ pc = "done"
    /\ bs = [year |-> 2079, month |-> 12, day |-> 31]
    /\ ~ReachesOffset(monthTable, bs)
    /\ Backwards(bs)
    /\ path = "approx"
    /\ result = Some("2023-03-28")

\* C26 as stated: bs_to_ad returns None for every month outside 1..12 and
\* every day below 1, in a tabulated year or not.
C26_NoneOutsideMonthAndDay ==
    (pc = "done" /\ (bs.month \notin 1..12 \/ bs.day < 1)) => result = None

\* C26 amended: for a month outside 1..12 or a day below 1, bs_to_ad returns
\* None when the year is tabulated; for an untabulated year it returns None
\* only when the AD month (month + 3, month - 9 from month 10 on) lies outside
\* 1..12 or the AD year (year - 57, year - 56 from month 10 on) outside
\* 1..9999, and else the first ... 28th day of that AD month: min(day, 28),
\* day 1 for a day below 1.
C26_NoneOutsideMonthAndDayIfTabulated ==
    (pc = "done" /\ (bs.month \notin 1..12 \/ bs.day < 1)) =>
        IF bs.year \in TableYears THEN result = None
        ELSE IF ApproxMonth(bs) \notin 1..12 \/ ApproxYear(bs) < 1 \/ ApproxYear(bs) > 9999
        THEN result = None
        ELSE result = Some(strftime(<<ApproxYear(bs), ApproxMonth(bs),
                                      IF bs.day >= 1 THEN Min(bs.day, 28) ELSE 1>>))

C26_Witness ==
    /\ pc = "done"
    /\ bs = [year |-> 2070, month |-> 13, day |-> 0]
    /\ result = Some("2014-04-01")

\* ---- the order of the two dates of a record

\* C24: every record the pipeline emits has startDateAD not later than
\* endDateAD, whatever the announcement text, also for a range whose start
\* month follows its end month, such as '28th Falgun - 4th Magh, 2082'.
C24_StartNotAfterEnd ==
    pc = "fetched" =>
        \A j \in 1..Len(returned) :
            IsoOrd(StartAD(returned[j])) <= IsoOrd(EndAD(returned[j]))

\* ---- the store

\* the rows that hold the records of a request body, one row each, in order
RowsOf(body) ==
    [j \in 1..Len(body) |-> [company |-> body[j].company,
                             start_date |-> body[j].startDate,
                             end_date |-> body[j].endDate]]

\* how many times x occurs in the sequence
Times(seq, x) == Cardinality({j \in 1..Len(seq) : seq[j] = x})

\* the request of client c has ended with the status, and no other request
\* was made
EndedAlone(c, status_code) ==
    /\ requests[c].pc = "done"
    /\ requests[c].response = Some([status_code |-> status_code])
          \/ /\ status_code = 200
             /\ requests[c].response # None
             /\ requests[c].response[1].status_code = 200
    /\ \A o \in Clients \ {c} : requests[o].pc = "none"

C27_AllOrNothing ==
    \A c \in Clients : EndedAlone(c, 500) => table_ipos = ipos_before

\* C28: when two POST /ipos/update requests with the bodies A and B run at
\* the same time, with their clear and save steps in any order, the table
\* holds exactly A or exactly B at the end, and a GET /ipos/upcoming made at
\* any moment returns the old contents, A or B.
C28_OneOfTheTwo ==
    (\A c \in Clients : requests[c].pc # "none") =>
        /\ (\A c \in Clients : /\ requests[c].pc = "done"
                               /\ requests[c].response[1].status_code = 200)
              => \E c \in Clients : table_ipos = RowsOf(requests[c].body)
        /\ got # None
              => got[1] \in {get_upcoming_ipos(ipos_before)}
                               \cup {get_upcoming_ipos(RowsOf(requests[c].body))
                                        : c \in Clients}

\* ---- the tokens and the notifications

\* the tokens that have a row
Registered(table) == {table[j].token : j \in 1..Len(table)}

\* C29: after any sequence of calls of save_fcm_token and
\* deactivate_fcm_token the table fcm_tokens holds at most one row for a
\* token, rows for the tokens that were saved and for no other,
\* get_all_active_tokens returns exactly the tokens whose last call was
\* save_fcm_token, each once, and every save of a token has returned the
\* same id, the id of its row.
C29_OneRowPerTokenActiveIffSavedLast ==
    pc = "tokens" =>
        /\ \A t \in Tokens :
              /\ Cardinality({j \in 1..Len(table_fcm_tokens) :
                                 table_fcm_tokens[j].token = t}) <= 1
              /\ Cardinality(token_ids[t]) <= 1
              /\ \A j \in 1..Len(table_fcm_tokens) :
                    table_fcm_tokens[j].token = t
                        => token_ids[t] = {table_fcm_tokens[j].id}
              /\ Times(get_all_active_tokens(table_fcm_tokens), t)
                    = IF last_call[t] = "save" THEN 1 ELSE 0
        /\ Registered(table_fcm_tokens) = {t \in Tokens : token_ids[t] # {}}
        /\ \A j, k \in 1..Len(table_fcm_tokens) :
              j # k => table_fcm_tokens[j].id # table_fcm_tokens[k].id

\* t1 was saved, deactivated and saved again, t2 was deactivated without
\* ever being saved
C29_Witness ==
    /\ pc = "tokens"
    /\ table_fcm_tokens = <<[id |-> 1, token |-> "t1", active |-> 1]>>
    /\ last_call = [t \in Tokens |-> IF t = "t1" THEN "save" ELSE "deactivate"]
    /\ token_ids = [t \in Tokens |-> IF t = "t1" THEN {1} ELSE {}]

\* the stored IPOs, as get_upcoming_ipos gives them, and the active tokens
StoredIpos == {get_upcoming_ipos(table_ipos)[j] : j \in 1..Len(table_ipos)}
ActiveTokens == {table_fcm_tokens[j].token :
                    j \in {k \in 1..Len(table_fcm_tokens) : table_fcm_tokens[k].active = 1}}

\* the calls of a send function of the type for the token and the IPO
Attempted(type, t, ipo) ==
    Cardinality({j \in 1..Len(attempts) :
                    /\ attempts[j].type = type
                    /\ attempts[j].token = t
                    /\ attempts[j].ipo = ipo})

\* for a stored IPO and an active token: one opening notification for each
\* row of the IPO if it starts today, one reminder if it starts tomorrow,
\* nothing else; no attempt for a token that is not active
AttemptsAsDue ==
    /\ \A ipo \in StoredIpos, t \in ActiveTokens :
          /\ Attempted("ipo_opening", t, ipo)
                = IF ipo.startDate = strftime(today)
                  THEN Times(get_upcoming_ipos(table_ipos), ipo) ELSE 0
          /\ Attempted("ipo_reminder", t, ipo)
                = IF ipo.startDate = strftime(add_days(today, 1).value)
                  THEN Times(get_upcoming_ipos(table_ipos), ipo) ELSE 0
    /\ \A j \in 1..Len(attempts) :
          /\ attempts[j].token \in ActiveTokens
          /\ attempts[j].ipo \in StoredIpos

\* C22: in one run of send_daily_notifications, for every stored IPO and
\* every active token, an opening notification is attempted exactly once if
\* the IPO starts today, a reminder exactly once if it starts tomorrow, and
\* nothing for any other start date; a token that is not active gets no
\* attempt, and a send that fails stops no other send.
C22_AttemptsAsDue == pc = "notified" => AttemptsAsDue

\* ---- the run of the standalone scraper

\* C30: a run of main that scraped no record gives nothing to the API, writes
\* no backup file and returns False; a run that scraped at least one record
\* ends with the records given to the API and accepted (it returns True), or
\* written to the backup file: after a failure of the API (it returns
\* False), or without an API_URL (it returns True).
C30_AcceptedOrBackedUp ==
    pc = "exited" =>
        IF returned = <<>>
        THEN posted = None /\ backup = None /\ exit_value = Some(FALSE)
        ELSE \/ /\ truthy(api_url) /\ api = "ok"
                /\ posted = Some(returned) /\ backup = None
                /\ exit_value = Some(TRUE)
             \/ /\ truthy(api_url) /\ api # "ok"
                /\ posted = Some(returned) /\ backup = Some(returned)
                /\ exit_value = Some(FALSE)
             \/ /\ ~truthy(api_url)
                /\ posted = None /\ backup = Some(returned)
                /\ exit_value = Some(TRUE)

C30_Witness ==
    /\ pc = "exited"
    /\ page.media_divs = <<Scenario2>>
    /\ api_url = Some("https://backend/ipos/update")
    /\ api = "RequestException"
    /\ backup = Some(<<[company |-> "ABC Hydropower Ltd",
                        startDate |-> "2026-03-15", endDate |-> "2026-03-19"]>>)
    /\ exit_value = Some(FALSE)

====
